---- MODULE Spec2Model ----
(***************************************************************************)
(* Verification model of the XRPL copy-trader: the streaming monitors      *)
(* (utils/xrpl_base_monitor.py, market_monitor.py, memecoin_monitor.py,    *)
(* main.py), the in-memory token tracker, the follower and the store       *)
(* (utils/db_handler.py, db_handler.py) with the token analyzer.           *)
(*                                                                         *)
(* Each component has its own specification (SpecMon, SpecFol, SpecTrk,    *)
(* SpecSto); the variables of the other components keep their initial      *)
(* value under it.                                                         *)
(***************************************************************************)
EXTENDS Integers, Sequences, FiniteSets, TLC

(***************************************************************************)
(* Bounds of the model (not program constants).                            *)
(***************************************************************************)
\* waits (asyncio.sleep before a reconnect) explored since the last subscription
MaxWaits == 3
\* largest silence, in seconds, the clock is advanced to while SUBSCRIBED
MaxAge == 80
\* largest configured max_reconnect_attempts explored
MaxAttemptsCfg == 2
\* frames delivered to the follower in one run
MaxFollowerFrames == 2
\* frames delivered to the market tracker in one run
MaxTrackerFrames == 4
\* largest configured min_trust_lines (hot threshold) explored
MaxThreshold == 3
\* store operations (add_trade, mark_token_for_analysis, analysis cycles) in one run
MaxStoreOps == 4
\* order-book samples the price monitor takes in one run
MaxPriceSamples == 3
\* frames the transport delivers to the follower's client queue in one run
MaxDelivered == 3
\* frames handed to XRPLTransactionParser.parse_transaction in one run
MaxParsed == 2
\* frames the parser, the tracker and the follower receive between them in one run
MaxStreamFrames == 3
\* trust-line and trade documents written to the store before and between scoring rounds
MaxScorerWrites == 3
\* scoring rounds in one run
MaxRounds == 2

(***************************************************************************)
(* Program constants.                                                      *)
(***************************************************************************)
ping_interval == 30
ping_timeout == 10
DelayCeiling == 320
FollowerInitialDelay == 5
\* granularity of the model clock, in seconds
TickLen == 10

Variants == {"base", "market", "follower"}
\* reconnect_delay_seconds values explored: 5 is the default, 400 is above the ceiling
Delays == {1, 5, 160, 400}
ErrorKinds == {"ConnectionClosed", "WebSocketException", "Exception"}
TransportErrors == {"ConnectionClosed", "WebSocketException"}

Min(a, b) == IF a <= b THEN a ELSE b
Max(a, b) == IF a >= b THEN a ELSE b

RECURSIVE Pow2(_)
Pow2(n) == IF n = 0 THEN 1 ELSE 2 * Pow2(n - 1)

VARIABLES
  \* ---- streaming monitor ----
  variant,                 \* which monitor class runs
  max_reconnect_attempts,  \* configuration
  reconnect_delay,         \* configuration (initial delay)
  pc,                      \* position of monitor(): idle, connecting, subscribed, sleeping, returned, raised
  is_running,
  reconnect_attempts,
  current_delay,
  ping_task,               \* none, running, dead (task ended with an exception)
  pongAge,                 \* seconds since self.last_pong was set
  respAge,                 \* seconds since a response frame last arrived (or since subscription)
  hbSleep,                 \* seconds left of the heartbeat's asyncio.sleep(ping_interval)
  pingsSent,               \* pings sent on this connection (0..2, saturating)
  sleepFor,                \* argument of the pending asyncio.sleep of the reconnect path
  exitCause,               \* why monitor() ended
  waitNo,                  \* observer: waits since the last successful subscription
  errsSinceSub             \* observer: transport errors since the last successful subscription

monVars == <<variant, max_reconnect_attempts, reconnect_delay, pc, is_running,
             reconnect_attempts, current_delay, ping_task, pongAge, respAge,
             hbSleep, pingsSent, sleepFor, exitCause, waitNo, errsSinceSub>>

VARIABLES
  \* ---- follower (memecoin_monitor.py / main.py XRPLTokenMonitor) ----
  follower,              \* which follower class runs: memecoin or main
  test_mode,
  min_trust_line_amount, \* configuration
  max_trust_line_amount, \* configuration
  submissions,           \* transactions handed to submit_and_wait, in order
  known_tokens,          \* main.py: token keys already seen
  trustlines,            \* memecoin: rows inserted by db.add_trustline
  trust_lines_today,     \* web_server monitor_stats
  transactions_today,    \* web_server monitor_stats
  testLogs,              \* "TEST MODE: Would ..." lines logged
  nFollowerFrames        \* frames delivered so far

folVars == <<follower, test_mode, min_trust_line_amount, max_trust_line_amount, submissions,
             known_tokens, trustlines, trust_lines_today, transactions_today, testLogs,
             nFollowerFrames>>

VARIABLES
  \* ---- market tracker (market_monitor.py XRPLMarketMonitor) ----
  min_trust_lines,     \* configuration: the hot threshold
  tokens,              \* dict token_key -> [trust_lines]
  hot_tokens,          \* set of token keys
  traded_tokens,       \* dict token_key -> [total_volume, trades]
  analytics_events,    \* documents inserted into db.analytics_events, in order
  snapshot,            \* content of the data file written by _save_data
  seen,                \* observer: hashes of the validated frames handled so far
  lastFrame,           \* observer: the frame handled last
  nTrackerFrames       \* frames delivered so far

trkVars == <<min_trust_lines, tokens, hot_tokens, traded_tokens, analytics_events, snapshot,
             seen, lastFrame, nTrackerFrames>>

VARIABLES
  \* ---- store (utils/db_handler.py XRPLDatabase) and TokenAnalyzer ----
  token_analysis,   \* collection token_analysis: dict token -> document
  purchases,        \* documents inserted into db.purchases (count)
  an_pc,            \* TokenAnalyzer: idle (sleeping between cycles) or analyzing (in gather)
  an_todo,          \* tokens of the current batch whose _analyze_token has not finished
  an_results,       \* dict token -> result of _analyze_token: "None" or "analysis"
  nStoreOps         \* operations started so far

stoVars == <<token_analysis, purchases, an_pc, an_todo, an_results, nStoreOps>>

VARIABLES
  \* ---- PriceMonitor (price_monitor.py) ----
  pm_todo,          \* active tokens of the current pass still to be checked, in order
  pm_pc,            \* idle (sleeping poll_interval) or checking (inside _price_check_loop)
  pm_last,          \* observer: token and price of the last completed update
  nPriceSamples     \* samples taken so far

priVars == <<pm_todo, pm_pc, pm_last, nPriceSamples>>

VARIABLES
  \* ---- the follower's message loop at its suspension points, and the controller ----
  inbox,            \* frames the client has received and the loop has not yet taken
  running,          \* handlers suspended in submit_and_wait: [id, token, stage, f]
  startedOrder,     \* observer: ids of the frames, in the order their handling began
  dupIds,           \* observer: ids delivered while a submission for their token was in flight
  subIds,           \* observer: ids of the frames for which a TrustSet was submitted
  lastReturn,       \* observer: id, type and result of the submission that returned last
  tltAtStart,       \* observer: trust_lines_today when the running handler began
  okIds,            \* observer: ids of the frames whose TrustSet returned tesSUCCESS
  last_error,       \* web_server.monitor_stats["last_error"]
  nDelivered        \* frames delivered so far

pipVars == <<inbox, running, startedOrder, dupIds, subIds, lastReturn, tltAtStart, okIds,
             last_error, nDelivered>>

VARIABLES
  \* ---- XRPLTransactionParser (utils/xrpl_transaction_parser.py) ----
  parsed,           \* what parse_transaction returned last: (transaction_type, parsed_info)
  parseInput,       \* observer: the frame it was given
  nParsed           \* frames parsed so far

parVars == <<parsed, parseInput, nParsed>>

VARIABLES
  \* ---- WalletScorer (wallet_scorer.py) and the collections it reads ----
  db_trustlines,      \* trustlines collection, in insertion (timestamp) order
  db_purchases,       \* purchases collection, in insertion (timestamp) order
  clock,              \* hours since the store was created
  early_adopter_max,  \* constructor parameter
  wallet_scores,      \* wallet_analysis.alpha_score, in hundredths
  alpha_file,         \* rows of output_file after the header
  nScorerWrites,
  nRounds

scoVars == <<db_trustlines, db_purchases, clock, early_adopter_max, wallet_scores,
             alpha_file, nScorerWrites, nRounds>>

VARIABLES
  \* ---- observer of the message loop ----
  handlerRaised     \* the step just taken was a frame whose handler raised

errVars == <<handlerRaised>>

VARIABLES
  \* ---- Config (config.py) ----
  config_yaml,       \* the trading amounts config.yaml supplies
  config_local,      \* the trading amounts the local config file supplies
  trading,           \* config['trading'] after _load_config, "unloaded" before
  config_loaded      \* Config() has returned
cfgVars == <<config_yaml, config_local, trading, config_loaded>>

VARIABLES
  \* ---- RateLimiter and the tasks of one analysis batch (utils/token_analyzer.py) ----
  rl_current_delay,     \* RateLimiter.current_delay, in eighths of a second
  since_last_request,   \* time.time() - last_request_time, in eighths, saturating at max_delay
  consecutive_429s,     \* RateLimiter.consecutive_429s
  task_pc,              \* per task: "ready", "sleeping", "requesting", "done"
  task_phase,           \* per task: "age" (Tx request) or "txs" (AccountTx request)
  task_timer,           \* per task: what is left of asyncio.sleep in wait_if_needed
  throttling,           \* the server still answers 429
  rl_response           \* the response the step just taken delivered, "none" otherwise
rlVars == <<rl_current_delay, since_last_request, consecutive_429s, task_pc, task_phase,
            task_timer, throttling, rl_response>>

VARIABLES
  \* ---- the controller (web_server.py) ----
  monitor_status,    \* monitor_stats["status"]
  monitor_obj,       \* the global `monitor`: number of the XRPLTokenMonitor object it names
  obj_is_running,    \* is_running of every monitor object (object 0 is made by lifespan)
  tasks,             \* the run_monitor tasks created so far: [obj, st]
  start_pc           \* "idle", or "broadcasting" while start_monitor awaits broadcast_stats
ctlVars == <<monitor_status, monitor_obj, obj_is_running, tasks, start_pc>>
auxVars == <<cfgVars, rlVars, ctlVars>>

vars == <<monVars, folVars, trkVars, stoVars, priVars, pipVars, parVars, scoVars, errVars, auxVars>>

(***************************************************************************)
(* Streaming monitor.                                                      *)
(***************************************************************************)
HasCounter == variant \in {"base", "market"}

\* the delay monitor() starts from and resets to on a successful subscription
InitialDelay == IF variant = "follower" THEN FollowerInitialDelay ELSE reconnect_delay

\* current_delay = min(current_delay * 2, 320)
NextDelay(d) == Min(d * 2, DelayCeiling)

InitMon ==
  /\ variant \in Variants
  /\ max_reconnect_attempts \in 1..MaxAttemptsCfg
  /\ reconnect_delay \in Delays
  /\ pc = "idle"
  /\ is_running = FALSE
  /\ reconnect_attempts = 0
  /\ current_delay = 0
  /\ ping_task = "none"
  /\ pongAge = 0
  /\ respAge = 0
  /\ hbSleep = 0
  /\ pingsSent = 0
  /\ sleepFor = 0
  /\ exitCause = "none"
  /\ waitNo = 0
  /\ errsSinceSub = 0

\* monitor(): is_running = True, counters initialised, first connection attempt started
MonitorStart ==
  /\ pc = "idle"
  /\ pc' = "connecting"
  /\ is_running' = TRUE
  /\ reconnect_attempts' = 0
  /\ current_delay' = InitialDelay
  /\ UNCHANGED <<variant, max_reconnect_attempts, reconnect_delay, ping_task, pongAge,
                 respAge, hbSleep, pingsSent, sleepFor, exitCause, waitNo, errsSinceSub>>

\* the finally block, then the loop test: the heartbeat task is cancelled and awaited;
\* a task that already ended with an exception re-raises it out of monitor()
Finally(brk, cause) ==
  IF ping_task = "dead"
  THEN /\ pc' = "raised"
       /\ exitCause' = "heartbeat_error"
       /\ ping_task' = ping_task
  ELSE /\ ping_task' = "none"
       /\ IF brk
          THEN pc' = "returned" /\ exitCause' = cause
          ELSE IF is_running
               THEN pc' = "connecting" /\ exitCause' = exitCause
               ELSE pc' = "returned" /\ exitCause' = "stopped"

\* the counter test of the except clause: reconnect_attempts > max_reconnect_attempts
ExceedsMaxOffByOne(n) == n >= max_reconnect_attempts
ExceedsMax(n) == n > max_reconnect_attempts

\* the except clauses of monitor() for an exception of kind e raised inside the try block
OnError(e) ==
  /\ errsSinceSub' = IF e \in TransportErrors THEN errsSinceSub + 1 ELSE errsSinceSub
  /\ IF HasCounter /\ e \in TransportErrors
     THEN /\ reconnect_attempts' = reconnect_attempts + 1
          /\ IF ExceedsMax(reconnect_attempts + 1)
             THEN /\ Finally(TRUE, "exhausted")
                  /\ UNCHANGED <<sleepFor, waitNo>>
             ELSE IF is_running
                  THEN /\ pc' = "sleeping"
                       /\ sleepFor' = current_delay
                       /\ waitNo' = waitNo + 1
                       /\ UNCHANGED <<ping_task, exitCause>>
                  ELSE /\ Finally(FALSE, "none")
                       /\ UNCHANGED <<sleepFor, waitNo>>
     ELSE /\ reconnect_attempts' = reconnect_attempts
          /\ IF is_running
             THEN /\ pc' = "sleeping"
                  /\ sleepFor' = current_delay
                  /\ waitNo' = waitNo + 1
                  /\ UNCHANGED <<ping_task, exitCause>>
             ELSE /\ Finally(FALSE, "none")
                  /\ UNCHANGED <<sleepFor, waitNo>>

\* connection opened, subscription sent, started-callback run, heartbeat started, counters reset
ConnectOk ==
  /\ pc = "connecting"
  /\ pc' = "subscribed"
  /\ ping_task' = "running"
  /\ pongAge' = 0
  /\ respAge' = 0
  /\ hbSleep' = ping_interval
  /\ pingsSent' = 0
  /\ reconnect_attempts' = 0
  /\ current_delay' = InitialDelay
  /\ waitNo' = 0
  /\ errsSinceSub' = 0
  /\ UNCHANGED <<variant, max_reconnect_attempts, reconnect_delay, is_running, sleepFor, exitCause>>

\* opening the connection or sending the subscription raises
ConnectFail(e) ==
  /\ pc = "connecting"
  /\ waitNo < MaxWaits
  /\ OnError(e)
  /\ UNCHANGED <<variant, max_reconnect_attempts, reconnect_delay, is_running, current_delay,
                 pongAge, respAge, hbSleep, pingsSent>>

\* the transport raises while the monitor waits for the next frame
TransportError(e) ==
  /\ pc = "subscribed"
  /\ OnError(e)
  /\ UNCHANGED <<variant, max_reconnect_attempts, reconnect_delay, is_running, current_delay,
                 pongAge, respAge, hbSleep, pingsSent>>

\* asyncio.sleep(current_delay) returns: the delay doubles up to the ceiling, then finally
SleepDone ==
  /\ pc = "sleeping"
  /\ current_delay' = NextDelay(current_delay)
  /\ Finally(FALSE, "none")
  /\ UNCHANGED <<variant, max_reconnect_attempts, reconnect_delay, is_running, reconnect_attempts,
                 pongAge, respAge, hbSleep, pingsSent, sleepFor, waitNo, errsSinceSub>>

\* does this frame refresh last_pong?  Only a frame delivered as text is inspected for
\* "type":"response"; an already-decoded object is passed on as data
RefreshesPong(type, form) == type = "response" /\ form = "text"

\* one frame delivered by `async for message in client`; outcome is what the handler does
FrameArrives(type, form, outcome) ==
  /\ pc = "subscribed"
  /\ respAge' = IF type = "response" THEN 0 ELSE respAge
  /\ IF ~is_running
     THEN \* `if not self.is_running: break`
          /\ Finally(FALSE, "none")
          /\ UNCHANGED <<pongAge, reconnect_attempts, sleepFor, waitNo, errsSinceSub>>
     ELSE IF outcome = "raises" /\ type = "transaction" /\ variant # "base"
          THEN \* market / follower: the handler's exception reaches `except Exception`
               /\ waitNo < MaxWaits
               /\ OnError("Exception")
               /\ UNCHANGED pongAge
          ELSE \* handled (the base class logs a handler exception and continues)
               /\ pongAge' = IF RefreshesPong(type, form) THEN 0 ELSE pongAge
               /\ UNCHANGED <<pc, ping_task, exitCause, reconnect_attempts, sleepFor,
                              waitNo, errsSinceSub>>
  /\ UNCHANGED <<variant, max_reconnect_attempts, reconnect_delay, is_running, current_delay,
                 hbSleep, pingsSent>>

\* time passes while SUBSCRIBED; a due heartbeat wake-up happens first
Tick ==
  /\ pc = "subscribed"
  /\ respAge < MaxAge
  /\ ping_task = "running" => hbSleep > 0
  /\ pongAge' = Min(pongAge + TickLen, MaxAge)
  /\ respAge' = respAge + TickLen
  /\ hbSleep' = IF ping_task = "running" THEN hbSleep - TickLen ELSE hbSleep
  /\ UNCHANGED <<variant, max_reconnect_attempts, reconnect_delay, pc, is_running,
                 reconnect_attempts, current_delay, ping_task, pingsSent, sleepFor,
                 exitCause, waitNo, errsSinceSub>>

\* the dead-connection test of _heartbeat
MissedPong == pongAge > ping_interval + ping_timeout

\* _heartbeat wakes from asyncio.sleep(ping_interval): raise ConnectionClosed inside the
\* heartbeat task when the pong is overdue, else send a ping (which may itself fail)
HeartbeatWake(sendOk) ==
  /\ ping_task = "running"
  /\ pc = "subscribed"
  /\ hbSleep = 0
  /\ IF MissedPong \/ ~sendOk
     THEN ping_task' = "dead" /\ UNCHANGED <<hbSleep, pingsSent>>
     ELSE ping_task' = "running" /\ hbSleep' = ping_interval /\ pingsSent' = Min(pingsSent + 1, 2)
  /\ UNCHANGED <<variant, max_reconnect_attempts, reconnect_delay, pc, is_running,
                 reconnect_attempts, current_delay, pongAge, respAge, sleepFor,
                 exitCause, waitNo, errsSinceSub>>

\* stop(): is_running = False (the base class also cancels a running heartbeat task)
Stop ==
  /\ pc \in {"connecting", "subscribed", "sleeping"}
  /\ is_running
  /\ is_running' = FALSE
  /\ ping_task' = IF variant = "base" /\ ping_task = "running" THEN "none" ELSE ping_task
  /\ UNCHANGED <<variant, max_reconnect_attempts, reconnect_delay, pc, reconnect_attempts,
                 current_delay, pongAge, respAge, hbSleep, pingsSent, sleepFor, exitCause,
                 waitNo, errsSinceSub>>

MonStep ==
  \/ MonitorStart
  \/ ConnectOk
  \/ \E e \in ErrorKinds : ConnectFail(e)
  \/ \E e \in ErrorKinds : TransportError(e)
  \/ SleepDone
  \/ \E type \in {"response", "transaction"}, form \in {"text", "object"},
        outcome \in {"ok", "raises"} : FrameArrives(type, form, outcome)
  \/ Tick
  \/ \E sendOk \in BOOLEAN : HeartbeatWake(sendOk)
  \/ Stop

\* the monitor as the follower and tracker specifications see it: subscribed and running
MonSubscribed ==
  /\ variant = "follower"
  /\ max_reconnect_attempts = 1
  /\ reconnect_delay = FollowerInitialDelay
  /\ pc = "subscribed"
  /\ is_running = TRUE
  /\ reconnect_attempts = 0
  /\ current_delay = FollowerInitialDelay
  /\ ping_task = "running"
  /\ pongAge = 0
  /\ respAge = 0
  /\ hbSleep = ping_interval
  /\ pingsSent = 0
  /\ sleepFor = 0
  /\ exitCause = "none"
  /\ waitNo = 0
  /\ errsSinceSub = 0

(***************************************************************************)
(* Follower.                                                               *)
(***************************************************************************)
target_wallet == "rTarget"
Accounts == {"rTarget", "rOther"}
Currencies == {"TST", "ABC"}
Issuer == "rIss"
\* decimal strings are sequences of characters
LimitStrings == { <<"0">>, <<"5", "0">>, <<"5", "0", "0", "0">>, <<"2", "0", "0", "0", "0">> }
\* (min_trust_line_amount, max_trust_line_amount) pairs explored; Config keeps min <= max
TrustConfigs == { <<1000, 10000>>, <<50, 5000>>, <<1000, 1000>> }
initial_purchase_amount == <<"1">>
NoLimitAmount == [missing |-> TRUE]
\* a key the dict does not have: tx.get(...) gives None
NoDestination == "None"
MissingValue == << >>
SubmitResults == {"tesSUCCESS", "tecNO_LINE", "raises"}

DigitVal(c) ==
  CASE c = "0" -> 0 [] c = "1" -> 1 [] c = "2" -> 2 [] c = "3" -> 3 [] c = "4" -> 4
    [] c = "5" -> 5 [] c = "6" -> 6 [] c = "7" -> 7 [] c = "8" -> 8 [] c = "9" -> 9

DigitChar(d) ==
  CASE d = 0 -> "0" [] d = 1 -> "1" [] d = 2 -> "2" [] d = 3 -> "3" [] d = 4 -> "4"
    [] d = 5 -> "5" [] d = 6 -> "6" [] d = 7 -> "7" [] d = 8 -> "8" [] d = 9 -> "9"

RECURSIVE DigitsValue(_)
DigitsValue(s) ==
  IF Len(s) = 0 THEN 0
  ELSE 10 * DigitsValue(SubSeq(s, 1, Len(s) - 1)) + DigitVal(s[Len(s)])

\* float(limit) for a decimal string with an optional ".0" fraction
ParseFloat(s) ==
  IF Len(s) >= 3 /\ s[Len(s) - 1] = "." /\ s[Len(s)] = "0"
  THEN DigitsValue(SubSeq(s, 1, Len(s) - 2))
  ELSE DigitsValue(s)

RECURSIVE Digits(_)
Digits(n) == IF n < 10 THEN <<DigitChar(n)>> ELSE Append(Digits(n \div 10), DigitChar(n % 10))

\* str(trust_limit) of a whole-valued float: "1000.0"
FormatFloat(n) == Digits(n) \o <<".", "0">>

\* trust_limit = max(min(float(limit), max_amount), min_amount)
TrustLimitNoFloor(limit, lo, hi) == Min(ParseFloat(limit), hi)
TrustLimit(limit, lo, hi) == Max(Min(ParseFloat(limit), hi), lo)

\* every shape of frame: validated TrustSets with every Account, Destination and
\* LimitAmount; unvalidated frames and Payments with one LimitAmount
AllFrames ==
  [ validated : BOOLEAN,
    txKey : {"transaction", "tx_json"},
    TransactionType : {"TrustSet", "Payment"},
    Account : Accounts,
    Destination : {NoDestination, target_wallet},
    LimitAmount : {NoLimitAmount}
                  \cup [missing : {FALSE}, currency : Currencies, issuer : {Issuer},
                        value : LimitStrings \cup {MissingValue}] ]
FollowerFrames ==
  { f \in AllFrames :
      \/ f.validated /\ f.TransactionType = "TrustSet"
      \/ /\ f.Account = target_wallet
         /\ f.Destination = NoDestination
         /\ ~f.LimitAmount.missing
         /\ f.LimitAmount.currency = "TST"
         /\ f.LimitAmount.value = <<"5", "0", "0", "0">> }

token_key(currency, issuer) == <<currency, issuer>>

FolInit ==
  /\ follower \in {"memecoin", "main"}
  /\ test_mode \in BOOLEAN
  /\ \E c \in TrustConfigs : min_trust_line_amount = c[1] /\ max_trust_line_amount = c[2]
  /\ submissions = << >>
  /\ known_tokens = {}
  /\ trustlines = << >>
  /\ trust_lines_today = 0
  /\ transactions_today = 0
  /\ testLogs = 0
  /\ nFollowerFrames = 0

FolIdle ==
  /\ follower = "memecoin"
  /\ test_mode = FALSE
  /\ min_trust_line_amount = 1000
  /\ max_trust_line_amount = 10000
  /\ submissions = << >>
  /\ known_tokens = {}
  /\ trustlines = << >>
  /\ trust_lines_today = 0
  /\ transactions_today = 0
  /\ testLogs = 0
  /\ nFollowerFrames = 0

\* the transaction set_trust_line builds for (currency, issuer, limit)
TrustSetTx(f) ==
  [ type |-> "TrustSet",
    currency |-> f.LimitAmount.currency,
    issuer |-> f.LimitAmount.issuer,
    value |-> FormatFloat(TrustLimit(f.LimitAmount.value, min_trust_line_amount,
                                     max_trust_line_amount)),
    limit |-> f.LimitAmount.value,
    validated |-> f.validated,
    frameType |-> f.TransactionType,
    account |-> f.Account,
    destination |-> f.Destination ]

\* the transaction make_small_purchase builds
PaymentTx(f) ==
  [ type |-> "Payment",
    currency |-> f.LimitAmount.currency,
    issuer |-> f.LimitAmount.issuer,
    value |-> initial_purchase_amount,
    limit |-> f.LimitAmount.value,
    validated |-> f.validated,
    frameType |-> f.TransactionType,
    account |-> f.Account,
    destination |-> f.Destination ]

\* set_trust_line: in test mode nothing but a log line; else one submission
SetTrustLineIgnoringTestMode(f) == <<TrustSetTx(f)>>
SetTrustLine(f) == IF test_mode THEN << >> ELSE <<TrustSetTx(f)>>

\* make_small_purchase: in test mode nothing but a log line; else one submission
MakeSmallPurchase(f) == IF test_mode THEN << >> ELSE <<PaymentTx(f)>>

\* does the monitor loop hand this frame to handle_trust_set?  memecoin reads the
\* transaction under tx_json, main.py under transaction
Dispatched(f) ==
  /\ f.validated
  /\ f.txKey = (IF follower = "memecoin" THEN "tx_json" ELSE "transaction")
  /\ f.TransactionType = "TrustSet"

\* the test on the sender: main.py requires Account == target_wallet; memecoin_monitor
\* returns only when neither Account nor Destination is the target wallet
InvolvesTarget(f) ==
  IF follower = "memecoin"
  THEN f.Account = target_wallet \/ f.Destination = target_wallet
  ELSE f.Account = target_wallet

\* all([currency, issuer, limit]): true of the non-empty string "0", false of a missing value
CompleteLimitAmount(f) == ~f.LimitAmount.missing /\ f.LimitAmount.value # MissingValue

\* the early returns of handle_trust_set: Account, LimitAmount, currency/issuer/value
Accepted(f) ==
  /\ InvolvesTarget(f)
  /\ CompleteLimitAmount(f)

\* memecoin_monitor.XRPLTokenMonitor.handle_trust_set on an accepted frame: store row,
\* controller callback, then set_trust_line (whose failure is logged and swallowed)
HandleTrustSetMemecoin(f, r1) ==
  /\ trustlines' = Append(trustlines,
                          [currency |-> f.LimitAmount.currency, issuer |-> f.LimitAmount.issuer,
                           limit |-> f.LimitAmount.value, test_mode |-> test_mode])
  /\ trust_lines_today' = trust_lines_today + 1
  /\ transactions_today' = transactions_today + 1
  /\ submissions' = submissions \o SetTrustLine(f)
  /\ testLogs' = IF test_mode THEN testLogs + 1 ELSE testLogs
  /\ UNCHANGED known_tokens

\* main.py: make_small_purchase is reached only when set_trust_line did not raise, that
\* is when the TrustSet returned tesSUCCESS
PurchaseFollowsAnyResult(r) == r # "raises"
PurchaseFollows(r) == r = "tesSUCCESS"

\* main.XRPLTokenMonitor.handle_trust_set on an accepted frame: only a token not yet
\* known is mirrored; the purchase follows a TrustSet that returned tesSUCCESS
HandleTrustSetMain(f, r1) ==
  LET key == token_key(f.LimitAmount.currency, f.LimitAmount.issuer) IN
  /\ known_tokens' = known_tokens \cup {key}
  /\ IF key \in known_tokens
     THEN UNCHANGED <<submissions, testLogs>>
     ELSE /\ submissions' = submissions \o SetTrustLine(f)
                              \o (IF test_mode \/ PurchaseFollows(r1)
                                  THEN MakeSmallPurchase(f) ELSE << >>)
          /\ testLogs' = IF test_mode THEN testLogs + 2 ELSE testLogs
  /\ UNCHANGED <<trustlines, trust_lines_today, transactions_today>>

\* one frame taken from the stream by the follower's monitor loop and handled to the end;
\* r1 is what the ledger answers to the follower's TrustSet
FollowerFrame(f, r1) ==
  /\ pc = "subscribed" /\ is_running
  /\ nFollowerFrames < MaxFollowerFrames
  /\ nFollowerFrames' = nFollowerFrames + 1
  /\ IF Dispatched(f) /\ Accepted(f)
     THEN IF follower = "memecoin"
          THEN HandleTrustSetMemecoin(f, r1)
          ELSE HandleTrustSetMain(f, r1)
     ELSE UNCHANGED <<submissions, known_tokens, trustlines, trust_lines_today,
                      transactions_today, testLogs>>
  /\ UNCHANGED <<follower, test_mode, min_trust_line_amount, max_trust_line_amount>>

FolStep == \E f \in FollowerFrames, r1 \in SubmitResults : FollowerFrame(f, r1)

(***************************************************************************)
(* Market tracker.                                                         *)
(***************************************************************************)
min_trade_volume == 1000
DefaultMinTrustLines == 5
NoFrame == [hash |-> "none"]
NoSnapshot == [written |-> FALSE]

\* the transactions of the ledger the stream can deliver, each under its own hash
LedgerTxs ==
  { [hash |-> "h1", TransactionType |-> "TrustSet", Account |-> "w1", currency |-> "TST",
     issuer |-> Issuer, value |-> <<"1", "0", "0", "0">>, native |-> FALSE, delivered |-> << >>],
    [hash |-> "h2", TransactionType |-> "TrustSet", Account |-> "w2", currency |-> "TST",
     issuer |-> Issuer, value |-> <<"1", "0", "0", "0">>, native |-> FALSE, delivered |-> << >>],
    [hash |-> "h3", TransactionType |-> "TrustSet", Account |-> "w3", currency |-> "TST",
     issuer |-> Issuer, value |-> <<"1", "0", "0", "0">>, native |-> FALSE, delivered |-> << >>],
    [hash |-> "h4", TransactionType |-> "TrustSet", Account |-> "w1", currency |-> "TST",
     issuer |-> Issuer, value |-> <<"0">>, native |-> FALSE, delivered |-> << >>],
    [hash |-> "h5", TransactionType |-> "TrustSet", Account |-> "w1", currency |-> "ABC",
     issuer |-> Issuer, value |-> <<"5", "0">>, native |-> FALSE, delivered |-> << >>],
    [hash |-> "h6", TransactionType |-> "Payment", Account |-> "w1", currency |-> "TST",
     issuer |-> Issuer, value |-> <<"2", "0", "0", "0">>, native |-> FALSE,
     delivered |-> <<"1", "5", "0", "0">>],
    [hash |-> "h7", TransactionType |-> "Payment", Account |-> "w2", currency |-> "TST",
     issuer |-> Issuer, value |-> <<"5", "0", "0">>, native |-> FALSE, delivered |-> << >>],
    [hash |-> "h8", TransactionType |-> "Payment", Account |-> "w2", currency |-> "XRP",
     issuer |-> Issuer, value |-> <<"5", "0", "0", "0">>, native |-> TRUE, delivered |-> << >>] }

TrackerFrames == { [validated |-> v, tx |-> t] : v \in BOOLEAN, t \in LedgerTxs }

get_token_key(currency, issuer) == <<currency, issuer>>

TrkInit ==
  /\ min_trust_lines \in 1..MaxThreshold
  /\ tokens = << >>
  /\ hot_tokens = {}
  /\ traded_tokens = << >>
  /\ analytics_events = << >>
  /\ snapshot = NoSnapshot
  /\ seen = {}
  /\ lastFrame = NoFrame
  /\ nTrackerFrames = 0

TrkIdle ==
  /\ min_trust_lines = DefaultMinTrustLines
  /\ tokens = << >>
  /\ hot_tokens = {}
  /\ traded_tokens = << >>
  /\ analytics_events = << >>
  /\ snapshot = NoSnapshot
  /\ seen = {}
  /\ lastFrame = NoFrame
  /\ nTrackerFrames = 0

\* dict assignment d[k] = v
Put(d, k, v) == [x \in (DOMAIN d) \cup {k} |-> IF x = k THEN v ELSE d[x]]

\* db.analytics_add_trust_line / analytics_add_trade: one more document, no lookup by tx_hash
AnalyticsAddEvent(events, ev) == Append(events, ev)

\* the removal branch: trust_lines = max(0, trust_lines - 1); hot_tokens is not touched
HotAfterRemovalUnlatched(key, count) ==
  IF count < min_trust_lines THEN hot_tokens \ {key} ELSE hot_tokens
HotAfterRemoval(key, count) == hot_tokens

\* the increment branch: the token becomes hot when the new count equals min_trust_lines
HotAfterIncrement(key, count) ==
  IF count = min_trust_lines THEN hot_tokens \cup {key} ELSE hot_tokens

\* the removal branch: the count never goes below zero
CountAfterRemovalUnclamped(n) == n - 1
CountAfterRemoval(n) == Max(0, n - 1)

\* XRPLMarketMonitor.handle_trust_set
HandleTrustSet(tx) ==
  LET key == get_token_key(tx.currency, tx.issuer) IN
  /\ analytics_events' = AnalyticsAddEvent(analytics_events,
         [event_type |-> "trust_line", token |-> key, wallet |-> tx.Account,
          amount |-> tx.value, tx_hash |-> tx.hash])
  /\ IF tx.value = <<"0">>
     THEN IF key \in DOMAIN tokens
          THEN LET n == CountAfterRemoval(tokens[key].trust_lines) IN
               /\ tokens' = Put(tokens, key, [trust_lines |-> n])
               /\ hot_tokens' = HotAfterRemoval(key, n)
          ELSE UNCHANGED <<tokens, hot_tokens>>
     ELSE IF key \notin DOMAIN tokens
          THEN /\ tokens' = Put(tokens, key, [trust_lines |-> 1])
               /\ UNCHANGED hot_tokens
          ELSE LET n == tokens[key].trust_lines + 1 IN
               /\ tokens' = Put(tokens, key, [trust_lines |-> n])
               /\ hot_tokens' = HotAfterIncrement(key, n)
  /\ UNCHANGED traded_tokens

\* XRPLMarketMonitor.handle_payment
HandlePayment(tx) ==
  LET key == get_token_key(tx.currency, tx.issuer)
      value == ParseFloat(tx.value)
      actual_value == IF tx.delivered # << >> THEN tx.delivered ELSE FormatFloat(value)
  IN
  IF tx.native \/ value = 0 \/ value < min_trade_volume
  THEN UNCHANGED <<analytics_events, traded_tokens, tokens, hot_tokens>>
  ELSE /\ analytics_events' = AnalyticsAddEvent(analytics_events,
              [event_type |-> "trade", token |-> key, wallet |-> tx.Account,
               amount |-> actual_value, tx_hash |-> tx.hash])
       /\ IF key \in DOMAIN tokens
          THEN IF key \notin DOMAIN traded_tokens
               THEN traded_tokens' = Put(traded_tokens, key, [total_volume |-> value, trades |-> 1])
               ELSE traded_tokens' = Put(traded_tokens, key,
                        [total_volume |-> traded_tokens[key].total_volume + value,
                         trades |-> traded_tokens[key].trades + 1])
          ELSE UNCHANGED traded_tokens
       /\ UNCHANGED <<tokens, hot_tokens>>

\* _save_data: the state after the frame was handled goes to the data file
SaveDataBeforeHandler ==
  snapshot' = [written |-> TRUE, tokens |-> tokens, hot_tokens |-> hot_tokens,
               traded_tokens |-> traded_tokens]
SaveData ==
  snapshot' = [written |-> TRUE, tokens |-> tokens', hot_tokens |-> hot_tokens',
               traded_tokens |-> traded_tokens']

\* one frame taken from the stream by XRPLMarketMonitor.monitor and handled to the end,
\* the snapshot test included; saveDue says whether save_interval has elapsed
TrackerFrame(f, saveDue) ==
  /\ pc = "subscribed" /\ is_running
  /\ nTrackerFrames < MaxTrackerFrames
  /\ nTrackerFrames' = nTrackerFrames + 1
  /\ lastFrame' = [hash |-> f.tx.hash, validated |-> f.validated]
  /\ seen' = IF f.validated THEN seen \cup {f.tx.hash} ELSE seen
  /\ IF f.validated /\ f.tx.TransactionType = "TrustSet" THEN HandleTrustSet(f.tx)
     ELSE IF f.validated /\ f.tx.TransactionType = "Payment" THEN HandlePayment(f.tx)
     ELSE UNCHANGED <<tokens, hot_tokens, traded_tokens, analytics_events>>
  /\ IF saveDue THEN SaveData ELSE UNCHANGED snapshot
  /\ UNCHANGED min_trust_lines

TrkStep == \E f \in TrackerFrames, saveDue \in BOOLEAN : TrackerFrame(f, saveDue)

(***************************************************************************)
(* Store (token_analysis collection) and TokenAnalyzer.                    *)
(***************************************************************************)
StoreTokens == { <<"TST", Issuer>>, <<"ABC", Issuer>> }
Prices == {1, 2}
Unset == 0

StoInit ==
  /\ token_analysis = << >>
  /\ purchases = 0
  /\ an_pc = "idle"
  /\ an_todo = {}
  /\ an_results = << >>
  /\ nStoreOps = 0

\* update_one(..., {"$set": patch}, upsert=True): the document is created when missing
NewDoc == [status |-> "none", first_seen_tx |-> FALSE, current_price |-> Unset,
           first_price |-> Unset, max_price |-> Unset]
DocOf(coll, t) == IF t \in DOMAIN coll THEN coll[t] ELSE NewDoc

\* XRPLDatabase.update_token_prices
UpdateTokenPrices(coll, t, price) ==
  LET doc == DocOf(coll, t) IN
  Put(coll, t, [doc EXCEPT
     !.current_price = price,
     !.first_price = IF t \notin DOMAIN coll \/ doc.first_price = Unset THEN price ELSE @,
     !.max_price = IF t \notin DOMAIN coll \/ doc.max_price = Unset \/ price > doc.max_price
                   THEN price ELSE @])

\* the status add_trade writes: "active" whatever the status was
StatusAfterTrade(old) == "active"

\* the status mark_token_for_analysis writes: "pending" whatever the status was
StatusAfterMark(old) == "pending"

\* XRPLDatabase.add_trade with valid buyer and seller
AddTrade(t, price) ==
  /\ nStoreOps < MaxStoreOps
  /\ nStoreOps' = nStoreOps + 1
  /\ purchases' = purchases + 1
  /\ LET c1 == UpdateTokenPrices(token_analysis, t, price) IN
     token_analysis' = Put(c1, t, [c1[t] EXCEPT !.status = StatusAfterTrade(@)])
  /\ UNCHANGED <<an_pc, an_todo, an_results>>

\* XRPLDatabase.add_trade with an empty or "null" buyer or seller: rejected
AddTradeInvalid ==
  /\ nStoreOps < MaxStoreOps
  /\ nStoreOps' = nStoreOps + 1
  /\ UNCHANGED <<token_analysis, purchases, an_pc, an_todo, an_results>>

\* XRPLDatabase.mark_token_for_analysis
MarkTokenForAnalysis(t) ==
  /\ nStoreOps < MaxStoreOps
  /\ nStoreOps' = nStoreOps + 1
  /\ token_analysis' = Put(token_analysis, t,
        [DocOf(token_analysis, t) EXCEPT !.status = StatusAfterMark(@), !.first_seen_tx = TRUE])
  /\ UNCHANGED <<purchases, an_pc, an_todo, an_results>>

\* XRPLDatabase.mark_token_too_old: update_one without upsert
MarkTokenTooOld(coll, t) ==
  IF t \in DOMAIN coll THEN Put(coll, t, [coll[t] EXCEPT !.status = "too_old"]) ELSE coll

\* XRPLDatabase.is_token_too_old
is_token_too_old(t) == t \in DOMAIN token_analysis /\ token_analysis[t].status = "too_old"

\* XRPLDatabase.get_unanalyzed_tokens: the pending tokens and the active ones in expired
\* (those whose last_updated is older than the cutoff)
GetUnanalyzedTokensExpiredOnly(expired) ==
  { t \in DOMAIN token_analysis : token_analysis[t].status = "active" /\ t \in expired }
GetUnanalyzedTokens(expired) ==
  { t \in DOMAIN token_analysis :
      \/ token_analysis[t].status = "pending"
      \/ token_analysis[t].status = "active" /\ t \in expired }

\* store_token_analysis(..., status="active"): upsert of the analysis result
StoreTokenAnalysis(coll, t) == Put(coll, t, [DocOf(coll, t) EXCEPT !.status = "active"])

RECURSIVE StoreAll(_, _)
StoreAll(coll, ts) ==
  IF ts = {} THEN coll
  ELSE LET t == CHOOSE x \in ts : TRUE IN StoreAll(StoreTokenAnalysis(coll, t), ts \ {t})

\* TokenAnalyzer._analysis_loop: fetch the tokens to analyse and start the batch
AnalysisBegin(expired) ==
  /\ an_pc = "idle"
  /\ LET batch == GetUnanalyzedTokens(expired) IN
     /\ batch # {}
     /\ an_todo' = batch
     /\ an_results' = << >>
     /\ an_pc' = "analyzing"
  /\ UNCHANGED <<token_analysis, purchases>>

AnalysisStart(expired) ==
  /\ nStoreOps < MaxStoreOps
  /\ nStoreOps' = nStoreOps + 1
  /\ AnalysisBegin(expired)

\* TokenAnalyzer._analyze_token for one token of the batch; outcome is what the ledger
\* answers: no age, an age above max_token_age_hours, or a young token whose account_tx
\* request succeeds or fails
AnalyzeToken(t, outcome) ==
  /\ an_pc = "analyzing"
  /\ t \in an_todo
  /\ an_todo' = an_todo \ {t}
  /\ IF ~token_analysis[t].first_seen_tx \/ outcome \in {"no_age", "young_fail"}
     THEN /\ an_results' = Put(an_results, t, "None")
          /\ UNCHANGED token_analysis
     ELSE IF outcome = "too_old"
          THEN /\ token_analysis' = MarkTokenTooOld(token_analysis, t)
               /\ an_results' = Put(an_results, t, "None")
          ELSE /\ an_results' = Put(an_results, t, "analysis")
               /\ UNCHANGED token_analysis
  /\ UNCHANGED <<purchases, an_pc, nStoreOps>>

\* _analysis_loop after gather: every analysis that is not None is stored as active
AnalysisStore ==
  /\ an_pc = "analyzing"
  /\ an_todo = {}
  /\ token_analysis' = StoreAll(token_analysis,
                                {t \in DOMAIN an_results : an_results[t] = "analysis"})
  /\ an_pc' = "idle"
  /\ an_results' = << >>
  /\ UNCHANGED <<purchases, an_todo, nStoreOps>>

StoStep ==
  \/ \E t \in StoreTokens, price \in Prices : AddTrade(t, price)
  \/ AddTradeInvalid
  \/ \E t \in StoreTokens : MarkTokenForAnalysis(t)
  \/ \E expired \in SUBSET StoreTokens : AnalysisStart(expired)
  \/ \E t \in StoreTokens, outcome \in {"no_age", "too_old", "young_ok", "young_fail"} :
        AnalyzeToken(t, outcome)
  \/ AnalysisStore

(***************************************************************************)
(* PriceMonitor.  Prices are Decimals; they are counted here in units of   *)
(* the smallest price step, and str(price) / Decimal(str(...)) is exact.   *)
(***************************************************************************)
\* min_price_change = Decimal('0.05'), in percent
min_price_change == 5
SampledPrices == {100, 103, 110}
NoPrice == 0
NoUpdate == [token |-> "none"]

PriInit ==
  /\ pm_todo = << >>
  /\ pm_pc = "idle"
  /\ pm_last = NoUpdate
  /\ nPriceSamples = 0

\* XRPLDatabase.get_token_max_price: None when the document or the field is missing
GetTokenMaxPrice(coll, t) ==
  IF t \in DOMAIN coll /\ coll[t].max_price # Unset THEN coll[t].max_price ELSE NoPrice

\* XRPLDatabase.update_token_price
UpdateTokenPrice(coll, t, price) == Put(coll, t, [DocOf(coll, t) EXCEPT !.current_price = price])

\* XRPLDatabase.update_token_max_price
UpdateTokenMaxPrice(coll, t, price) == Put(coll, t, [DocOf(coll, t) EXCEPT !.max_price = price])

\* prev_max is None or current_price > prev_max * (1 + min_price_change)
IsNewMaxAnyRise(prev_max, price) == prev_max = NoPrice \/ price > prev_max
IsNewMax(prev_max, price) ==
  prev_max = NoPrice \/ 100 * price > prev_max * (100 + min_price_change)

\* XRPLDatabase.get_active_tokens, in the order the collection returns them
RECURSIVE SeqOfSet(_)
SeqOfSet(ts) ==
  IF ts = {} THEN << >>
  ELSE LET t == CHOOSE x \in ts : TRUE IN <<t>> \o SeqOfSet(ts \ {t})
GetActiveTokens ==
  SeqOfSet({ t \in DOMAIN token_analysis : token_analysis[t].status = "active" })

\* PriceMonitor.start: the next pass begins with the tokens active at that moment
PriceCheckStart ==
  /\ pm_pc = "idle"
  /\ nPriceSamples < MaxPriceSamples
  /\ pm_todo' = GetActiveTokens
  /\ pm_pc' = "checking"
  /\ UNCHANGED <<pm_last, nPriceSamples, stoVars>>

\* one iteration of _price_check_loop: the order book is asked for the next token; price
\* is NoPrice when _get_token_price returns None.  The store calls after the two awaits
\* run without suspension.
PriceCheckToken(price) ==
  /\ pm_pc = "checking"
  /\ pm_todo # << >>
  /\ nPriceSamples < MaxPriceSamples
  /\ nPriceSamples' = nPriceSamples + 1
  /\ pm_todo' = Tail(pm_todo)
  /\ LET t == Head(pm_todo)
         prev_max == GetTokenMaxPrice(token_analysis, t)
         c1 == UpdateTokenPrice(token_analysis, t, price)
     IN IF price = NoPrice
        THEN UNCHANGED <<token_analysis, pm_last>>
        ELSE /\ token_analysis' = IF IsNewMax(prev_max, price)
                                  THEN UpdateTokenMaxPrice(c1, t, price) ELSE c1
             /\ pm_last' = [token |-> t, price |-> price, sample |-> nPriceSamples']
  /\ UNCHANGED <<pm_pc, purchases, an_pc, an_todo, an_results, nStoreOps>>

\* the pass is over: sleep poll_interval
PriceCheckDone ==
  /\ pm_pc = "checking"
  /\ pm_todo = << >>
  /\ pm_pc' = "idle"
  /\ UNCHANGED <<pm_todo, pm_last, nPriceSamples, stoVars>>

PriStep ==
  \/ PriceCheckStart
  \/ \E price \in SampledPrices \cup {NoPrice} : PriceCheckToken(price)
  \/ PriceCheckDone

(***************************************************************************)
(* The follower's message loop at its suspension points.  The client       *)
(* queues what the transport delivers; `async for message in client` takes *)
(* one frame, awaits its handler to the end, then takes the next.          *)
(***************************************************************************)
NoReturn == [id |-> 0]
NoError == "None"

PipeFrames ==
  { f \in FollowerFrames :
      /\ f.validated /\ f.TransactionType = "TrustSet"
      /\ f.Account = target_wallet
      /\ f.Destination = NoDestination
      /\ ~f.LimitAmount.missing
      /\ f.LimitAmount.value \in { <<"5", "0", "0", "0">>, <<"0">> } }

PipInit ==
  /\ inbox = << >>
  /\ running = {}
  /\ startedOrder = << >>
  /\ dupIds = {}
  /\ subIds = {}
  /\ lastReturn = NoReturn
  /\ tltAtStart = 0
  /\ okIds = {}
  /\ last_error = NoError
  /\ nDelivered = 0

FrameToken(f) == token_key(f.LimitAmount.currency, f.LimitAmount.issuer)

\* the transport delivers a frame: the client's reader task puts it on the queue
Deliver(f) ==
  /\ pc = "subscribed"
  /\ nDelivered < MaxDelivered
  /\ nDelivered' = nDelivered + 1
  /\ inbox' = Append(inbox, [id |-> nDelivered + 1, f |-> f])
  /\ dupIds' = IF Dispatched(f) /\ Accepted(f) /\ \E h \in running : h.token = FrameToken(f)
               THEN dupIds \cup {nDelivered + 1} ELSE dupIds
  /\ UNCHANGED <<running, startedOrder, subIds, lastReturn, tltAtStart, okIds, last_error,
                 monVars, folVars>>

\* the loop takes the next frame only when the handler it awaited has returned
HandlerFreeAlways == TRUE
HandlerFree == running = {}

\* the queue is read from its head
NextFrameIndexNewestFirst(q) == Len(q)
NextFrameIndex(q) == 1

RemoveAt(q, i) == SubSeq(q, 1, i - 1) \o SubSeq(q, i + 1, Len(q))

\* on_trust_line_created: monitor_stats["trust_lines_today"] += 1
StatsAfterTrustLineUncounted(n) == n
StatsAfterTrustLine(n) == n + 1

\* the loop takes a frame and runs its handler up to the first submit_and_wait
HandlerStart ==
  /\ pc = "subscribed" /\ is_running
  /\ HandlerFree
  /\ inbox # << >>
  /\ LET e == inbox[NextFrameIndex(inbox)]
         f == e.f
         h == [id |-> e.id, token |-> FrameToken(f), stage |-> "TrustSet", f |-> f]
     IN
     /\ inbox' = RemoveAt(inbox, NextFrameIndex(inbox))
     /\ startedOrder' = Append(startedOrder, e.id)
     /\ tltAtStart' = trust_lines_today
     /\ IF ~(Dispatched(f) /\ Accepted(f))
        THEN UNCHANGED <<running, subIds, folVars>>
        ELSE IF follower = "memecoin"
        THEN /\ trustlines' = Append(trustlines,
                   [currency |-> f.LimitAmount.currency, issuer |-> f.LimitAmount.issuer,
                    limit |-> f.LimitAmount.value, test_mode |-> test_mode])
             /\ trust_lines_today' = StatsAfterTrustLine(trust_lines_today)
             /\ transactions_today' = transactions_today + 1
             /\ submissions' = submissions \o SetTrustLine(f)
             /\ testLogs' = IF test_mode THEN testLogs + 1 ELSE testLogs
             /\ running' = IF test_mode THEN running ELSE running \cup {h}
             /\ subIds' = IF test_mode THEN subIds ELSE subIds \cup {e.id}
             /\ UNCHANGED <<follower, test_mode, min_trust_line_amount, max_trust_line_amount,
                            known_tokens, nFollowerFrames>>
        ELSE /\ known_tokens' = known_tokens \cup {FrameToken(f)}
             /\ IF FrameToken(f) \in known_tokens
                THEN UNCHANGED <<submissions, testLogs, running, subIds>>
                ELSE /\ submissions' = submissions \o SetTrustLine(f)
                     /\ testLogs' = IF test_mode THEN testLogs + 2 ELSE testLogs
                     /\ running' = IF test_mode THEN running ELSE running \cup {h}
                     /\ subIds' = IF test_mode THEN subIds ELSE subIds \cup {e.id}
             /\ UNCHANGED <<follower, test_mode, min_trust_line_amount, max_trust_line_amount,
                            trustlines, trust_lines_today, transactions_today, nFollowerFrames>>
  /\ UNCHANGED <<dupIds, lastReturn, okIds, last_error, nDelivered, monVars>>

\* does the failure of a submission leave handle_trust_set as an exception?  Both
\* followers catch it and log it
HandlerRaisesUncaught(r) == r # "tesSUCCESS"
HandlerRaises(r) == FALSE

\* what the failure of a submission writes to the controller's last_error: nothing,
\* the error is only logged
LastErrorAfterFailure(old, r) == old

\* the handler ends after a submission returned r
HandlerEnds(r) ==
  /\ last_error' = IF r = "tesSUCCESS" THEN last_error ELSE LastErrorAfterFailure(last_error, r)
  /\ IF HandlerRaises(r)
     THEN /\ OnError("Exception")
          /\ UNCHANGED <<variant, max_reconnect_attempts, reconnect_delay, is_running,
                         current_delay, pongAge, respAge, hbSleep, pingsSent>>
     ELSE UNCHANGED monVars

\* submit_and_wait returns for the handler h: r is the ledger's result, or the call raises
SubmitReturns(h, r) ==
  /\ h \in running
  /\ lastReturn' = [id |-> h.id, type |-> h.stage, result |-> r]
  /\ okIds' = IF h.stage = "TrustSet" /\ r = "tesSUCCESS" THEN okIds \cup {h.id} ELSE okIds
  /\ IF h.stage = "TrustSet" /\ follower = "main" /\ PurchaseFollows(r)
     THEN \* make_small_purchase follows in the same handler
          /\ running' = (running \ {h}) \cup {[h EXCEPT !.stage = "Payment"]}
          /\ submissions' = submissions \o MakeSmallPurchase(h.f)
          /\ UNCHANGED <<last_error, monVars>>
     ELSE /\ running' = running \ {h}
          /\ HandlerEnds(r)
          /\ UNCHANGED submissions
  /\ UNCHANGED <<inbox, startedOrder, dupIds, subIds, tltAtStart, nDelivered, follower,
                 test_mode, min_trust_line_amount, max_trust_line_amount, known_tokens,
                 trustlines, trust_lines_today, transactions_today, testLogs, nFollowerFrames>>

PipStep ==
  \/ \E f \in PipeFrames : Deliver(f)
  \/ HandlerStart
  \/ \E h \in running, r \in SubmitResults : SubmitReturns(h, r)

(***************************************************************************)
(* XRPLTransactionParser.                                                  *)
(***************************************************************************)
None == [none |-> TRUE]
NoAmount == [kind |-> "absent", currency |-> "", issuer |-> "", value |-> << >>]
XrpAmount == [kind |-> "scalar", currency |-> "", issuer |-> "",
              value |-> <<"5", "0", "0", "0", "0", "0", "0">>]
IssuedAmounts ==
  [ kind : {"issued"}, currency : {"TST"}, issuer : {Issuer},
    value : { <<"5", "0", "0">>, <<"1", "0", "0", "0">>, <<"2", "0", "0", "0">> } ]
DeliveredAmounts ==
  {NoAmount, [kind |-> "issued", currency |-> "TST", issuer |-> Issuer,
              value |-> <<"1", "5", "0", "0">>]}
ParserLimitAmounts ==
  {NoLimitAmount}
  \cup [missing : {FALSE}, currency : {"TST"}, issuer : {Issuer},
        value : { <<"0">>, <<"1", "0", "0", "0">> }]
\* the validated key of the frame: JSON true, JSON false, or no such key
ValidatedFlags == {"true", "false", "absent"}

ParserFrames ==
  [ validated : ValidatedFlags, txKey : {"transaction"}, TransactionType : {"TrustSet"},
    Account : {"w1", "None"}, Destination : {NoDestination}, Amount : {NoAmount},
    DeliveredAmount : {NoAmount}, LimitAmount : ParserLimitAmounts, hash : {"h1"} ]
  \cup
  [ validated : ValidatedFlags, txKey : {"transaction", "tx_json"},
    TransactionType : {"Payment"}, Account : {"w1"}, Destination : {NoDestination, "w2"},
    Amount : {XrpAmount} \cup IssuedAmounts, DeliveredAmount : DeliveredAmounts,
    LimitAmount : {NoLimitAmount}, hash : {"h6"} ]
  \cup
  [ validated : ValidatedFlags, txKey : {"transaction"}, TransactionType : {"OfferCreate"},
    Account : {"w1"}, Destination : {NoDestination}, Amount : {NoAmount},
    DeliveredAmount : {NoAmount}, LimitAmount : {NoLimitAmount}, hash : {"h9"} ]

NoParse == [kind |-> "nothing", info |-> None]

ParInit ==
  /\ parsed = NoParse
  /\ parseInput = None
  /\ nParsed = 0

\* data.get("validated", False) is true
IsValidatedAlways(data) == TRUE
IsValidated(data) == data.validated = "true"

\* parse_trust_set: value "0" is accepted (value is not None) and marks a removal
ParseTrustSet(tx) ==
  IF tx.LimitAmount.missing \/ tx.Account = "None"
  THEN None
  ELSE [none |-> FALSE, wallet |-> tx.Account, value |-> tx.LimitAmount.value,
        currency |-> tx.LimitAmount.currency, issuer |-> tx.LimitAmount.issuer,
        tx_hash |-> tx.hash, is_removal |-> (tx.LimitAmount.value = <<"0">>)]

\* parse_payment: None for a scalar Amount, a missing party, or a value below min_value
ParsePayment(tx, min_value) ==
  IF tx.Amount.kind # "issued"
  THEN None
  ELSE LET value == ParseFloat(tx.Amount.value) IN
       IF tx.Destination = NoDestination \/ tx.Account = "None" \/ value < min_value
       THEN None
       ELSE [none |-> FALSE, buyer |-> tx.Destination, seller |-> tx.Account,
             value |-> value,
             delivered_amount |-> IF tx.DeliveredAmount.kind = "issued"
                                  THEN ParseFloat(tx.DeliveredAmount.value) ELSE value,
             currency |-> tx.Amount.currency, issuer |-> tx.Amount.issuer,
             tx_hash |-> tx.hash]

\* the first element of parse_transaction's result for a validated Payment: the
\* transaction type, whatever parse_payment returns
PaymentKind(info) == "Payment"

\* parse_transaction: the transaction is read under the key "transaction"
ParseTransaction(data, min_payment_value) ==
  IF ~IsValidated(data) THEN [kind |-> "unvalidated", info |-> None]
  ELSE IF data.txKey # "transaction" THEN [kind |-> "None", info |-> None]
  ELSE IF data.TransactionType = "TrustSet"
       THEN [kind |-> "TrustSet", info |-> ParseTrustSet(data)]
  ELSE IF data.TransactionType = "Payment"
       THEN LET info == ParsePayment(data, min_payment_value) IN
            [kind |-> PaymentKind(info), info |-> info]
  ELSE [kind |-> data.TransactionType, info |-> None]

Parse(f) ==
  /\ nParsed < MaxParsed
  /\ nParsed' = nParsed + 1
  /\ parseInput' = f
  /\ parsed' = ParseTransaction(f, min_trade_volume)

ParStep == \E f \in ParserFrames : Parse(f)

(***************************************************************************)
(* WalletScorer.  Scores are kept in hundredths (7.00 is 700); quotients   *)
(* are rounded down to a hundredth.                                        *)
(***************************************************************************)
min_trades == 5
min_roi == 2
DefaultEarlyAdopterMax == 10
AlphaThreshold == 700
MaxExpectedStdDev == 168
ActiveWindow == 720
ScorerWallets == {"w1", "w2"}
Counterparty == "w3"
HourGaps == {1, 300}
ScorerMaxPrice == 6
NoFile == <<[wallet |-> "none", score |-> 0]>>

ScoInit ==
  /\ db_trustlines = << >>
  /\ db_purchases = << >>
  /\ clock = 0
  /\ early_adopter_max \in {2, DefaultEarlyAdopterMax}
  /\ wallet_scores = << >>
  /\ alpha_file = NoFile
  /\ nScorerWrites = 0
  /\ nRounds = 0

ScoIdle == ScoInit /\ early_adopter_max = DefaultEarlyAdopterMax

\* XRPLDatabase.add_trustline (utils/db_handler.py)
AddTrustline(w, t, limit, gap) ==
  /\ nScorerWrites < MaxScorerWrites
  /\ nScorerWrites' = nScorerWrites + 1
  /\ clock' = clock + gap
  /\ db_trustlines' = Append(db_trustlines,
        [wallet |-> w, token |-> t, limit |-> limit, timestamp |-> clock'])
  /\ UNCHANGED <<db_purchases, early_adopter_max, wallet_scores, alpha_file, nRounds, stoVars>>

\* XRPLDatabase.add_trade (utils/db_handler.py): the purchases document and the
\* token's prices
AddTradeDocument(buyer, seller, t, price) ==
  /\ nScorerWrites < MaxScorerWrites
  /\ nScorerWrites' = nScorerWrites + 1
  /\ clock' = clock + 1
  /\ db_purchases' = Append(db_purchases,
        [buyer |-> buyer, seller |-> seller, token |-> t, price_xrp |-> price,
         timestamp |-> clock'])
  /\ AddTrade(t, price)
  /\ UNCHANGED <<db_trustlines, early_adopter_max, wallet_scores, alpha_file, nRounds>>

\* XRPLDatabase.get_wallet_trustlines: every trustlines document of the wallet
GetWalletTrustlines(w) ==
  LET Mine(d) == d.wallet = w IN SelectSeq(db_trustlines, Mine)

\* get_wallet_all_trades: every purchases document with the wallet as buyer or seller
GetWalletAllTrades(w) ==
  LET Mine(d) == d.buyer = w \/ d.seller = w IN SelectSeq(db_purchases, Mine)

\* XRPLDatabase.get_token_trustline_position
GetTokenTrustlinePosition(t, timestamp) ==
  Cardinality({ i \in 1..Len(db_trustlines) :
                  /\ db_trustlines[i].token = t
                  /\ db_trustlines[i].timestamp <= timestamp
                  /\ db_trustlines[i].limit # <<"0">> }) + 1

\* XRPLDatabase.get_active_wallets
GetActiveWallets(since) ==
  { db_trustlines[i].wallet : i \in { j \in 1..Len(db_trustlines) :
                                        db_trustlines[j].timestamp >= since } }
  \cup { db_purchases[i].buyer : i \in { j \in 1..Len(db_purchases) :
                                           db_purchases[j].timestamp >= since } }
  \cup { db_purchases[i].seller : i \in { j \in 1..Len(db_purchases) :
                                            db_purchases[j].timestamp >= since } }

\* _count_early_adoptions, the test made for one trust-line document
IsEarlyAdoption(tl) ==
  GetTokenTrustlinePosition(tl.token, tl.timestamp) <= early_adopter_max

\* _count_early_adoptions: one count per trust-line document
CountEarlyAdoptions(tls) ==
  Cardinality({ i \in 1..Len(tls) : IsEarlyAdoption(tls[i]) })

RECURSIVE SumPrices(_)
SumPrices(ts) == IF ts = << >> THEN 0 ELSE Head(ts).price_xrp + SumPrices(Tail(ts))

\* _analyze_trading_success: tokens whose max price is at least (1 + min_roi) times the
\* average of the wallet's first three buys
AnalyzeTradingSuccess(w) ==
  LET trades == GetWalletAllTrades(w)
      traded == { trades[i].token : i \in 1..Len(trades) }
      Entry(t) == LET Buys(d) == d.token = t /\ d.buyer = w
                      buys == SelectSeq(trades, Buys)
                  IN SubSeq(buys, 1, Min(3, Len(buys)))
  IN Cardinality({ t \in traded :
        /\ GetTokenMaxPrice(token_analysis, t) # NoPrice
        /\ Entry(t) # << >>
        /\ GetTokenMaxPrice(token_analysis, t) * Len(Entry(t))
              >= (1 + min_roi) * SumPrices(Entry(t)) })

RECURSIVE Root(_, _, _)
Root(x, lo, hi) ==
  IF lo >= hi THEN lo
  ELSE LET mid == (lo + hi + 1) \div 2 IN
       IF mid * mid <= x THEN Root(x, mid, hi) ELSE Root(x, lo, mid - 1)
ISqrt(x) == Root(x, 0, Min(x, 40000))

RECURSIVE SumGaps(_, _)
SumGaps(tls, power) ==
  IF Len(tls) < 2 THEN 0
  ELSE LET g == tls[2].timestamp - tls[1].timestamp IN
       (IF power = 2 THEN g * g ELSE g) + SumGaps(Tail(tls), power)

\* _calculate_consistency, in hundredths: 1 - min(std_dev / 168, 1) over the hour gaps
\* between consecutive trust lines; 0 when there is no gap
CalculateConsistency(tls) ==
  IF Len(tls) < 2 THEN 0
  ELSE LET n == Len(tls) - 1
           radicand == n * SumGaps(tls, 2) - SumGaps(tls, 1) * SumGaps(tls, 1)
       IN 100 - Min(100, (100 * ISqrt(radicand)) \div (MaxExpectedStdDev * n))

\* _calculate_wallet_score: the weighted sum, returned as computed
CalculateWalletScore(w) ==
  LET tls == GetWalletTrustlines(w)
      total_tokens == Cardinality({ tls[i].token : i \in 1..Len(tls) })
  IN IF tls = << >> THEN 0
     ELSE (400 * CountEarlyAdoptions(tls)) \div Max(total_tokens, 1)
          + (400 * AnalyzeTradingSuccess(w)) \div Max(total_tokens, 1)
          + 2 * CalculateConsistency(tls)

\* the orders in which list(set) can enumerate the active wallets
Orders(S) ==
  { o \in [1..Cardinality(S) -> S] : \A i, j \in 1..Cardinality(S) : i # j => o[i] # o[j] }

\* the wallets _scoring_loop keeps: score and score >= 7
Qualifies(w) == CalculateWalletScore(w) >= AlphaThreshold

\* scored_wallets.sort(key=score, reverse=True): stable
RECURSIVE SortByScore(_)
SortByScore(rows) ==
  IF rows = << >> THEN << >>
  ELSE LET r == rows[Len(rows)]
           front == SortByScore(SubSeq(rows, 1, Len(rows) - 1))
           NotBelow(x) == x.score >= r.score
           Below(x) == x.score < r.score
       IN SelectSeq(front, NotBelow) \o <<r>> \o SelectSeq(front, Below)

\* wallet_analysis after update_wallet_alpha_score for every wallet that has trust lines
RECURSIVE ScoresAfter(_, _)
ScoresAfter(scores, ws) ==
  IF ws = {} THEN scores
  ELSE LET w == CHOOSE x \in ws : TRUE IN
       ScoresAfter(IF GetWalletTrustlines(w) = << >> THEN scores
                   ELSE Put(scores, w, CalculateWalletScore(w)), ws \ {w})

\* WalletScorer._scoring_loop with _save_alpha_wallets; no call in it suspends
ScoringRound(order) ==
  /\ nRounds < MaxRounds
  /\ nRounds' = nRounds + 1
  /\ LET Keep(w) == Qualifies(w)
         kept == SelectSeq(order, Keep)
         rows == [i \in 1..Len(kept) |->
                    [wallet |-> kept[i], score |-> CalculateWalletScore(kept[i])]]
     IN alpha_file' = SortByScore(rows)
  /\ wallet_scores' = ScoresAfter(wallet_scores, { order[i] : i \in 1..Len(order) })
  /\ UNCHANGED <<db_trustlines, db_purchases, clock, early_adopter_max, nScorerWrites, stoVars>>

ScoWrite ==
  \/ \E w \in ScorerWallets, t \in StoreTokens, gap \in HourGaps :
        AddTrustline(w, t, <<"1", "0", "0", "0">>, gap)
  \/ AddTrustline("w2", <<"TST", Issuer>>, <<"0">>, 1)
  \/ \E w \in ScorerWallets, t \in StoreTokens, price \in Prices :
        AddTradeDocument(w, Counterparty, t, price)
ScoRound == \E order \in Orders(GetActiveWallets(clock - ActiveWindow)) : ScoringRound(order)

ErrIdle == handlerRaised = FALSE

(***************************************************************************)
(* Config (config.py): the trust-line limits after loading config.yaml and *)
(* the local file.  A supplied amount is absent (key missing or null),     *)
(* malformed (float() raises ValueError) or a number, kept in tenths so    *)
(* that fractions such as 0.5 occur; the loaded limits are in whole units. *)
(***************************************************************************)
MaxConfigTenths == 12

DEFAULT_CONFIG == [min_trust_line_amount |-> 1000, max_trust_line_amount |-> 10000]

Absent == [k |-> "absent", v |-> 0]
Malformed == [k |-> "malformed", v |-> 0]
Number(t) == [k |-> "number", v |-> t]
SuppliedAmounts ==
  {Absent, Malformed} \cup {Number(t) : t \in (0 - 2)..MaxConfigTenths}
ConfigFiles ==
  [min_trust_line_amount : SuppliedAmounts, max_trust_line_amount : SuppliedAmounts]
NoTrading == [min_trust_line_amount |-> 0, max_trust_line_amount |-> 0]

\* _merge_configs: the override's value replaces the base's unless it is None
MergeConfigs(base, override) ==
  [key \in DOMAIN base |->
     IF override[key].k = "absent" THEN base[key] ELSE override[key]]

\* the loop of _validate_and_convert_types over one trust-line key:
\* float(str(x)); <= 0 or ValueError gives the default, otherwise int(value)
ConvertAmount(key, x) ==
  IF x.k = "number" /\ x.v > 0 THEN x.v \div 10 ELSE DEFAULT_CONFIG[key]

\* "Ensure max >= min for trust line amounts"
EnsureOrder(t) ==
  IF t.max_trust_line_amount < t.min_trust_line_amount THEN DEFAULT_CONFIG ELSE t

ValidateAndConvertTypes(merged) ==
  EnsureOrder([key \in DOMAIN merged |-> ConvertAmount(key, merged[key])])

\* what the two files supply together, before validation
Supplied ==
  MergeConfigs(MergeConfigs([min_trust_line_amount |-> Absent,
                             max_trust_line_amount |-> Absent], config_yaml),
               config_local)

CfgInit ==
  /\ config_yaml \in ConfigFiles
  /\ config_local \in ConfigFiles
  /\ trading = NoTrading
  /\ config_loaded = FALSE
CfgIdle ==
  /\ config_yaml = [min_trust_line_amount |-> Absent, max_trust_line_amount |-> Absent]
  /\ config_local = [min_trust_line_amount |-> Absent, max_trust_line_amount |-> Absent]
  /\ trading = NoTrading
  /\ config_loaded = FALSE

\* Config.__init__ -> _load_config
LoadConfig ==
  /\ ~config_loaded
  /\ trading' = ValidateAndConvertTypes(Supplied)
  /\ config_loaded' = TRUE
  /\ UNCHANGED <<config_yaml, config_local>>

(***************************************************************************)
(* RateLimiter (utils/token_analyzer.py) and the _analyze_token tasks that *)
(* one batch starts together with gather.  Times are in eighths of a       *)
(* second, which keeps every delay the limiter can reach an integer.       *)
(***************************************************************************)
MaxBatch == 2          \* tasks of one batch
Max429s == 7           \* cap on consecutive_429s

initial_delay == 8     \* 1.0 s
max_delay == 480       \* 60.0 s
backoff_factor == 2

BatchTasks == 1..MaxBatch

\* RateLimiter.handle_429
DoubledNoCeiling(delay) == delay * backoff_factor
Doubled(delay) == Min(max_delay, delay * backoff_factor)
Handle429 ==
  /\ consecutive_429s' = consecutive_429s + 1
  /\ rl_current_delay' = Doubled(rl_current_delay)

\* RateLimiter.handle_success
Halved(delay) == Max(initial_delay, delay \div backoff_factor)
HandleSuccess ==
  IF consecutive_429s > 0
    THEN /\ rl_current_delay' = Halved(rl_current_delay)
         /\ consecutive_429s' = 0
    ELSE UNCHANGED <<rl_current_delay, consecutive_429s>>

RlInit ==
  /\ rl_current_delay = initial_delay
  /\ since_last_request = max_delay
  /\ consecutive_429s = 0
  /\ task_pc = [t \in BatchTasks |-> "ready"]
  /\ task_phase = [t \in BatchTasks |-> "age"]
  /\ task_timer = [t \in BatchTasks |-> 0]
  /\ throttling = TRUE
  /\ rl_response = "none"
RlIdle ==
  /\ rl_current_delay = initial_delay
  /\ since_last_request = max_delay
  /\ consecutive_429s = 0
  /\ task_pc = [t \in BatchTasks |-> "done"]
  /\ task_phase = [t \in BatchTasks |-> "age"]
  /\ task_timer = [t \in BatchTasks |-> 0]
  /\ throttling = FALSE
  /\ rl_response = "none"

\* RateLimiter.wait_if_needed up to its first suspension: either it sleeps, or
\* it stamps last_request_time and the caller goes on to await client.request
WaitIfNeeded(t) ==
  /\ task_pc[t] = "ready"
  /\ rl_response' = "none"
  /\ IF since_last_request < rl_current_delay
       THEN /\ task_pc' = [task_pc EXCEPT ![t] = "sleeping"]
            /\ task_timer' = [task_timer EXCEPT ![t] = rl_current_delay - since_last_request]
            /\ UNCHANGED since_last_request
       ELSE /\ task_pc' = [task_pc EXCEPT ![t] = "requesting"]
            /\ since_last_request' = 0
            /\ UNCHANGED task_timer
  /\ UNCHANGED <<rl_current_delay, consecutive_429s, task_phase, throttling>>

\* asyncio.sleep returns: last_request_time = time.time(), then the request is sent
SleepReturns(t) ==
  /\ task_pc[t] = "sleeping"
  /\ task_timer[t] = 0
  /\ task_pc' = [task_pc EXCEPT ![t] = "requesting"]
  /\ since_last_request' = 0
  /\ rl_response' = "none"
  /\ UNCHANGED <<rl_current_delay, consecutive_429s, task_phase, task_timer, throttling>>

Sleepers == {t \in BatchTasks : task_pc[t] = "sleeping"}
NextTimer ==
  IF Sleepers = {} THEN max_delay
  ELSE CHOOSE d \in {task_timer[t] : t \in Sleepers} :
         \A t \in Sleepers : d <= task_timer[t]

\* time passes until the next sleeper is due (a long time when nobody sleeps)
TimePasses ==
  /\ NextTimer > 0
  /\ since_last_request' = Min(max_delay, since_last_request + NextTimer)
  /\ task_timer' = [t \in BatchTasks |->
                      IF t \in Sleepers THEN task_timer[t] - NextTimer ELSE task_timer[t]]
  /\ rl_response' = "none"
  /\ UNCHANGED <<rl_current_delay, consecutive_429s, task_pc, task_phase, throttling>>

\* the ledger answers the request of task t (_get_token_age 296-310, _analyze_token 220-240)
Responses == {"429", "success", "success_last"}
Respond(t, r) ==
  /\ task_pc[t] = "requesting"
  /\ IF r = "429"
       THEN /\ throttling
            /\ consecutive_429s < Max429s
            /\ Handle429
            /\ rl_response' = "429"
            /\ task_pc' = [task_pc EXCEPT ![t] = "done"]
            /\ UNCHANGED task_phase
       ELSE /\ HandleSuccess
            /\ rl_response' = "success"
            /\ IF r = "success" /\ task_phase[t] = "age"
                 THEN /\ task_pc' = [task_pc EXCEPT ![t] = "ready"]
                      /\ task_phase' = [task_phase EXCEPT ![t] = "txs"]
                 ELSE /\ task_pc' = [task_pc EXCEPT ![t] = "done"]
                      /\ UNCHANGED task_phase
  /\ UNCHANGED <<since_last_request, task_timer, throttling>>

\* gather has returned; the next batch (or the next cycle) starts its tasks together
BatchStart ==
  /\ \A t \in BatchTasks : task_pc[t] = "done"
  /\ task_pc' = [t \in BatchTasks |-> "ready"]
  /\ task_phase' = [t \in BatchTasks |-> "age"]
  /\ rl_response' = "none"
  /\ UNCHANGED <<rl_current_delay, since_last_request, consecutive_429s, task_timer, throttling>>

\* from here on the server answers no 429
ThrottlingStops ==
  /\ throttling
  /\ throttling' = FALSE
  /\ rl_response' = "none"
  /\ UNCHANGED <<rl_current_delay, since_last_request, consecutive_429s, task_pc, task_phase,
                 task_timer>>

RlRequests ==
  \/ \E t \in BatchTasks : WaitIfNeeded(t)
  \/ \E t \in BatchTasks : SleepReturns(t)
  \/ TimePasses
  \/ \E t \in BatchTasks, r \in Responses : Respond(t, r)
  \/ BatchStart
RlStep == RlRequests \/ ThrottlingStops

(***************************************************************************)
(* The controller (web_server.py): start_monitor, stop_monitor and the     *)
(* run_monitor tasks.  A task is "pending" from create_task until it runs, *)
(* "alive" while monitor() is connected or waiting to reconnect, and       *)
(* "returned" or "raised" afterwards.                                      *)
(***************************************************************************)
MaxStarts == 3         \* monitor objects made by start_monitor

MonitorObjects == 0..MaxStarts

CtlInit ==
  /\ monitor_status = "stopped"
  /\ monitor_obj = 0
  /\ obj_is_running = [o \in MonitorObjects |-> FALSE]
  /\ tasks = << >>
  /\ start_pc = "idle"
AuxIdle == CfgIdle /\ RlIdle /\ CtlInit

\* the test that opens start_monitor
MayStart == monitor_status # "running"

\* a task made by create_task takes its first step before any command handler that
\* becomes ready later
NoPendingTask == \A i \in DOMAIN tasks : tasks[i].st # "pending"

\* start_monitor up to `await broadcast_stats()`: a new XRPLTokenMonitor replaces the
\* global one and the status becomes "running"
StartMonitor ==
  /\ start_pc = "idle"
  /\ NoPendingTask
  /\ MayStart
  /\ monitor_obj < MaxStarts
  /\ monitor_obj' = monitor_obj + 1
  /\ monitor_status' = "running"
  /\ start_pc' = "broadcasting"
  /\ UNCHANGED <<obj_is_running, tasks>>

\* start_monitor after the broadcast: asyncio.create_task(run_monitor())
StartCreatesTask ==
  /\ start_pc = "broadcasting"
  /\ NoPendingTask
  /\ tasks' = Append(tasks, [obj |-> 0, st |-> "pending"])
  /\ start_pc' = "idle"
  /\ UNCHANGED <<monitor_status, monitor_obj, obj_is_running>>

\* run_monitor starts: `await monitor.monitor()` on the global monitor of that moment;
\* monitor() sets is_running and connects
RunMonitor(i) ==
  /\ tasks[i].st = "pending"
  /\ tasks' = [tasks EXCEPT ![i] = [obj |-> monitor_obj, st |-> "alive"]]
  /\ obj_is_running' = [obj_is_running EXCEPT ![monitor_obj] = TRUE]
  /\ UNCHANGED <<monitor_status, monitor_obj, start_pc>>

\* stop_monitor: await monitor.stop() only clears is_running; the status becomes "stopped"
StopMonitor ==
  /\ monitor_status = "running"
  /\ NoPendingTask
  /\ obj_is_running' = [obj_is_running EXCEPT ![monitor_obj] = FALSE]
  /\ monitor_status' = "stopped"
  /\ UNCHANGED <<monitor_obj, tasks, start_pc>>

\* a frame arrives, or the wait before a reconnect ends, in a monitor whose is_running
\* is cleared: the loop is left and monitor() returns
MonitorReturns(i) ==
  /\ tasks[i].st = "alive"
  /\ ~obj_is_running[tasks[i].obj]
  /\ tasks' = [tasks EXCEPT ![i].st = "returned"]
  /\ UNCHANGED <<monitor_status, monitor_obj, obj_is_running, start_pc>>

\* monitor() raises (the heartbeat's error leaves the cleanup): run_monitor's except
\* clause sets the status to "error"
MonitorRaises(i) ==
  /\ tasks[i].st = "alive"
  /\ tasks' = [tasks EXCEPT ![i].st = "raised"]
  /\ monitor_status' = "error"
  /\ UNCHANGED <<monitor_obj, obj_is_running, start_pc>>

\* on_monitor_started, called by monitor() once subscribed: status = "running"
OnMonitorStarted(i) ==
  /\ tasks[i].st = "alive"
  /\ monitor_status # "running"
  /\ monitor_status' = "running"
  /\ UNCHANGED <<monitor_obj, obj_is_running, tasks, start_pc>>

AliveTasks == {i \in DOMAIN tasks : tasks[i].st = "alive"}

(***************************************************************************)
(* Specifications, one per component.                                      *)
(***************************************************************************)
Init == InitMon /\ FolIdle /\ TrkIdle /\ StoInit /\ PriInit /\ PipInit /\ ParInit /\ ScoIdle /\ ErrIdle /\ AuxIdle
NextMon == MonStep /\ UNCHANGED <<folVars, trkVars, stoVars, priVars, pipVars, parVars, scoVars, errVars, auxVars>>
SpecMon == Init /\ [][NextMon]_vars

\* the monitor with the frames whose handler raises told apart from every other step
FrameRaises ==
  /\ is_running
  /\ \E form \in {"text", "object"} : FrameArrives("transaction", form, "raises")
MonOther ==
  \/ MonitorStart
  \/ ConnectOk
  \/ \E e \in ErrorKinds : ConnectFail(e)
  \/ \E e \in ErrorKinds : TransportError(e)
  \/ SleepDone
  \/ \E type \in {"response", "transaction"}, form \in {"text", "object"} :
        FrameArrives(type, form, "ok")
  \/ Tick
  \/ \E sendOk \in BOOLEAN : HeartbeatWake(sendOk)
  \/ Stop
NextErr ==
  \/ FrameRaises /\ handlerRaised' = TRUE
       /\ UNCHANGED <<folVars, trkVars, stoVars, priVars, pipVars, parVars, scoVars, auxVars>>
  \/ MonOther /\ handlerRaised' = FALSE
       /\ UNCHANGED <<folVars, trkVars, stoVars, priVars, pipVars, parVars, scoVars, auxVars>>
SpecErr == Init /\ [][NextErr]_vars

\* the event loop runs every task that is ready: the monitor coroutine, its timers and
\* the heartbeat task; what the transport does is left to the environment
SpecMonFair ==
  /\ Init
  /\ [][NextMon]_vars
  /\ WF_monVars(MonitorStart)
  /\ WF_monVars(SleepDone)
  /\ WF_monVars(Tick)
  /\ WF_monVars(\E sendOk \in BOOLEAN : HeartbeatWake(sendOk))

InitFol == MonSubscribed /\ FolInit /\ TrkIdle /\ StoInit /\ PriInit /\ PipInit /\ ParInit /\ ScoIdle /\ ErrIdle /\ AuxIdle
NextFol == FolStep /\ UNCHANGED <<monVars, trkVars, stoVars, priVars, pipVars, parVars, scoVars, errVars, auxVars>>
SpecFol == InitFol /\ [][NextFol]_vars

InitTrk == MonSubscribed /\ FolIdle /\ TrkInit /\ StoInit /\ PriInit /\ PipInit /\ ParInit /\ ScoIdle /\ ErrIdle /\ AuxIdle
NextTrk == TrkStep /\ UNCHANGED <<monVars, folVars, stoVars, priVars, pipVars, parVars, scoVars, errVars, auxVars>>
SpecTrk == InitTrk /\ [][NextTrk]_vars

MonIdle ==
  /\ InitMon
  /\ variant = "market"
  /\ max_reconnect_attempts = 1
  /\ reconnect_delay = FollowerInitialDelay

InitSto == MonIdle /\ FolIdle /\ TrkIdle /\ StoInit /\ PriInit /\ PipInit /\ ParInit /\ ScoIdle /\ ErrIdle /\ AuxIdle
NextSto == StoStep /\ UNCHANGED <<monVars, folVars, trkVars, priVars, pipVars, parVars, scoVars, errVars, auxVars>>
SpecSto == InitSto /\ [][NextSto]_vars

\* the store's writers, a bounded number of times, beside a TokenAnalyzer that keeps
\* cycling (start's while loop) and whose Tx and AccountTx requests are answered
StoreWriters ==
  \/ \E t \in StoreTokens, price \in Prices : AddTrade(t, price)
  \/ AddTradeInvalid
  \/ \E t \in StoreTokens : MarkTokenForAnalysis(t)
AnalysisCycle == \E expired \in SUBSET StoreTokens : AnalysisBegin(expired) /\ UNCHANGED nStoreOps
AnalyzeAnswered == \E t \in StoreTokens, outcome \in {"too_old", "young_ok"} : AnalyzeToken(t, outcome)
NextStoFair ==
  \/ StoreWriters /\ UNCHANGED <<monVars, folVars, trkVars, priVars, pipVars, parVars, scoVars, errVars, auxVars>>
  \/ AnalysisCycle /\ UNCHANGED <<monVars, folVars, trkVars, priVars, pipVars, parVars, scoVars, errVars, auxVars>>
  \/ AnalyzeAnswered /\ UNCHANGED <<monVars, folVars, trkVars, priVars, pipVars, parVars, scoVars, errVars, auxVars>>
  \/ AnalysisStore /\ UNCHANGED <<monVars, folVars, trkVars, priVars, pipVars, parVars, scoVars, errVars, auxVars>>
SpecStoFair ==
  /\ InitSto /\ [][NextStoFair]_vars
  /\ WF_stoVars(AnalysisCycle)
  /\ WF_stoVars(AnalyzeAnswered)
  /\ WF_stoVars(AnalysisStore)

\* the price monitor runs beside the store's other writers
NextPri ==
  \/ StoStep /\ UNCHANGED <<monVars, folVars, trkVars, priVars, pipVars, parVars, scoVars, errVars, auxVars>>
  \/ PriStep /\ UNCHANGED <<monVars, folVars, trkVars, pipVars, parVars, scoVars, errVars, auxVars>>
SpecPri == InitSto /\ [][NextPri]_vars

\* the follower's loop under the controller (memecoin_monitor) or alone (main.py)
InitPip ==
  /\ MonSubscribed /\ FolInit /\ TrkIdle /\ StoInit /\ PriInit /\ PipInit /\ ParInit /\ ScoIdle /\ ErrIdle /\ AuxIdle
  /\ min_trust_line_amount = 1000
  /\ max_trust_line_amount = 10000
NextPip == PipStep /\ UNCHANGED <<trkVars, stoVars, priVars, parVars, scoVars, errVars, auxVars>>
SpecPip == InitPip /\ [][NextPip]_vars

\* the parser applied to frames of every shape
NextPar == ParStep /\ UNCHANGED <<monVars, folVars, trkVars, stoVars, priVars, pipVars, scoVars, errVars, auxVars>>
SpecPar == InitSto /\ [][NextPar]_vars

\* validated and unvalidated frames reaching the parser, the tracker and a follower
StreamParserFrames ==
  { f \in ParserFrames :
      /\ f.txKey = "transaction" /\ f.Account = "w1" /\ f.DeliveredAmount = NoAmount
      /\ f.TransactionType = "TrustSet" => f.LimitAmount = [missing |-> FALSE,
             currency |-> "TST", issuer |-> Issuer, value |-> <<"1", "0", "0", "0">>]
      /\ f.TransactionType = "Payment" =>
             /\ f.Destination = "w2"
             /\ f.Amount \in {XrpAmount, [kind |-> "issued", currency |-> "TST",
                                issuer |-> Issuer, value |-> <<"2", "0", "0", "0">>]} }
StreamTrackerFrames == { f \in TrackerFrames : f.tx.hash \in {"h1", "h4", "h6"} }
StreamFollowerFrames ==
  { f \in FollowerFrames :
      /\ f.Account = target_wallet /\ f.Destination = NoDestination
      /\ ~f.LimitAmount.missing
      /\ f.LimitAmount.currency = "TST"
      /\ f.LimitAmount.value = <<"5", "0", "0", "0">> }

InitStream ==
  /\ MonSubscribed /\ FolInit /\ TrkInit /\ StoInit /\ PriInit /\ PipInit /\ ParInit /\ ScoIdle /\ ErrIdle /\ AuxIdle
  /\ ~test_mode
  /\ min_trust_line_amount = 1000
  /\ max_trust_line_amount = 10000
  /\ min_trust_lines = 1
StreamOpen == nParsed + nTrackerFrames + nFollowerFrames < MaxStreamFrames
StreamParse == StreamOpen /\ \E f \in StreamParserFrames : Parse(f)
StreamTrack == StreamOpen /\ \E f \in StreamTrackerFrames : TrackerFrame(f, FALSE)
StreamFollow == StreamOpen /\ \E f \in StreamFollowerFrames : FollowerFrame(f, "tesSUCCESS")
NextStream ==
  \/ StreamParse /\ UNCHANGED <<monVars, folVars, trkVars, stoVars, priVars, pipVars, scoVars, errVars, auxVars>>
  \/ StreamTrack /\ UNCHANGED <<monVars, folVars, stoVars, priVars, pipVars, parVars, scoVars, errVars, auxVars>>
  \/ StreamFollow /\ UNCHANGED <<monVars, trkVars, stoVars, priVars, pipVars, parVars, scoVars, errVars, auxVars>>
SpecStream == InitStream /\ [][NextStream]_vars

\* the tracker started when the store already holds TST as too_old: the token was
\* marked for analysis and TokenAnalyzer found it older than max_token_age_hours
TooOldStore ==
  MarkTokenTooOld(
    Put(<< >>, <<"TST", Issuer>>, [NewDoc EXCEPT !.status = "pending", !.first_seen_tx = TRUE]),
    <<"TST", Issuer>>)
InitGate ==
  /\ MonSubscribed /\ FolIdle /\ TrkInit /\ PriInit /\ PipInit /\ ParInit /\ ScoIdle /\ ErrIdle /\ AuxIdle
  /\ token_analysis = TooOldStore
  /\ purchases = 0
  /\ an_pc = "idle"
  /\ an_todo = {}
  /\ an_results = << >>
  /\ nStoreOps = 0
SpecGate == InitGate /\ [][NextTrk]_vars

\* the scorer beside the store's writers; TST already carries a max_price
ScorerStore ==
  Put(<< >>, <<"TST", Issuer>>,
      [NewDoc EXCEPT !.status = "active", !.current_price = ScorerMaxPrice,
                     !.first_price = ScorerMaxPrice, !.max_price = ScorerMaxPrice])
InitSco ==
  /\ MonIdle /\ FolIdle /\ TrkIdle /\ PriInit /\ PipInit /\ ParInit /\ ScoInit /\ ErrIdle /\ AuxIdle
  /\ token_analysis = ScorerStore
  /\ purchases = 0
  /\ an_pc = "idle"
  /\ an_todo = {}
  /\ an_results = << >>
  /\ nStoreOps = 0
NextSco ==
  \/ ScoWrite /\ UNCHANGED <<monVars, folVars, trkVars, priVars, pipVars, parVars, errVars, auxVars>>
  \/ ScoRound /\ UNCHANGED <<monVars, folVars, trkVars, priVars, pipVars, parVars, errVars, auxVars>>
SpecSco == InitSco /\ [][NextSco]_vars

\* Config alone, over every pair of files
InitCfg ==
  /\ MonIdle /\ FolIdle /\ TrkIdle /\ StoInit /\ PriInit /\ PipInit /\ ParInit /\ ScoIdle
  /\ ErrIdle /\ CfgInit /\ RlIdle /\ CtlInit
NextCfg ==
  LoadConfig /\ UNCHANGED <<monVars, folVars, trkVars, stoVars, priVars, pipVars, parVars,
                            scoVars, errVars, rlVars, ctlVars>>
SpecCfg == InitCfg /\ [][NextCfg]_vars

\* RateLimiter and one batch of analysis tasks; the fair version assumes that the
\* analyzer keeps running and that every request is answered
InitRl ==
  /\ MonIdle /\ FolIdle /\ TrkIdle /\ StoInit /\ PriInit /\ PipInit /\ ParInit /\ ScoIdle
  /\ ErrIdle /\ CfgIdle /\ RlInit /\ CtlInit
OthersRl == <<monVars, folVars, trkVars, stoVars, priVars, pipVars, parVars, scoVars, errVars,
              cfgVars, ctlVars>>
NextRl ==
  \/ (\E t \in BatchTasks : WaitIfNeeded(t)) /\ UNCHANGED OthersRl
  \/ (\E t \in BatchTasks : SleepReturns(t)) /\ UNCHANGED OthersRl
  \/ TimePasses /\ UNCHANGED OthersRl
  \/ (\E t \in BatchTasks, r \in Responses : Respond(t, r)) /\ UNCHANGED OthersRl
  \/ BatchStart /\ UNCHANGED OthersRl
  \/ ThrottlingStops /\ UNCHANGED OthersRl
SpecRl == InitRl /\ [][NextRl]_vars
SpecRlFair == SpecRl /\ WF_rlVars(RlRequests)

\* the controller under every interleaving of start and stop commands
InitCtl ==
  /\ MonIdle /\ FolIdle /\ TrkIdle /\ StoInit /\ PriInit /\ PipInit /\ ParInit /\ ScoIdle
  /\ ErrIdle /\ CfgIdle /\ RlIdle /\ CtlInit
OthersCtl == <<monVars, folVars, trkVars, stoVars, priVars, pipVars, parVars, scoVars, errVars,
               cfgVars, rlVars>>
NextCtl ==
  \/ StartMonitor /\ UNCHANGED OthersCtl
  \/ StartCreatesTask /\ UNCHANGED OthersCtl
  \/ (\E i \in DOMAIN tasks : RunMonitor(i)) /\ UNCHANGED OthersCtl
  \/ StopMonitor /\ UNCHANGED OthersCtl
  \/ (\E i \in DOMAIN tasks : MonitorReturns(i)) /\ UNCHANGED OthersCtl
  \/ (\E i \in DOMAIN tasks : MonitorRaises(i)) /\ UNCHANGED OthersCtl
  \/ (\E i \in DOMAIN tasks : OnMonitorStarted(i)) /\ UNCHANGED OthersCtl
SpecCtl == InitCtl /\ [][NextCtl]_vars

Terminal == pc \in {"returned", "raised"}

(***************************************************************************)
(* C1: while SUBSCRIBED, a silence of more than ping_interval +            *)
(* ping_timeout seconds (no response frame) leads to the monitor leaving   *)
(* SUBSCRIBED, unless a response frame ends the silence; the transport     *)
(* need not report an error.                                               *)
(***************************************************************************)
C1_DeadConnectionReconnects ==
  (pc = "subscribed" /\ respAge > ping_interval + ping_timeout)
     ~> (pc # "subscribed" \/ respAge <= ping_interval + ping_timeout)

(***************************************************************************)
(* C2: in the base and market monitors the reconnect counter equals the    *)
(* number of transport errors since the last successful subscription, the  *)
(* monitor has terminated as soon as the counter exceeds                   *)
(* max_reconnect_attempts, it gives up for exhaustion only then, and a     *)
(* terminated monitor never waits or connects again.                       *)
(***************************************************************************)
C2_CounterAndExhaustion ==
  /\ [](HasCounter =>
          /\ reconnect_attempts = errsSinceSub
          /\ (reconnect_attempts > max_reconnect_attempts => Terminal)
          /\ (exitCause = "exhausted" => reconnect_attempts = max_reconnect_attempts + 1))
  /\ [][Terminal => (pc' = pc /\ sleepFor' = sleepFor /\ waitNo' = waitNo)]_vars

C2_Witness ==
  /\ HasCounter
  /\ pc = "returned"
  /\ exitCause = "exhausted"
  /\ reconnect_attempts = max_reconnect_attempts + 1
  /\ max_reconnect_attempts = 2

(***************************************************************************)
(* C3: the k-th wait since the last successful subscription lasts          *)
(* min(d * 2^(k-1), 320) seconds, d being the configured initial delay.    *)
(***************************************************************************)
C3_BackoffSchedule ==
  pc = "sleeping" => sleepFor = Min(InitialDelay * Pow2(waitNo - 1), DelayCeiling)

\* the same schedule for initial delays that do not exceed the ceiling
BackoffScheduleBelowCeiling ==
  (pc = "sleeping" /\ InitialDelay <= DelayCeiling)
     => sleepFor = Min(InitialDelay * Pow2(waitNo - 1), DelayCeiling)

(***************************************************************************)
(* C4: every transaction the follower submits answers a validated TrustSet *)
(* frame of the target wallet whose limit is not "0".                      *)
(***************************************************************************)
C4_OnlyNonZeroTargetTrustSets ==
  \A i \in 1..Len(submissions) :
    /\ submissions[i].validated
    /\ submissions[i].frameType = "TrustSet"
    /\ submissions[i].account = target_wallet
    /\ submissions[i].limit # <<"0">>

(***************************************************************************)
(* C5: the value of every TrustSet the follower submits is the observed    *)
(* limit clamped into [min_trust_line_amount, max_trust_line_amount]:      *)
(* the minimum below it, the maximum above it, the limit itself inside.    *)
(***************************************************************************)
C5_ClampedLimit ==
  \A i \in 1..Len(submissions) :
    submissions[i].type = "TrustSet" =>
      LET v == ParseFloat(submissions[i].value)
          l == ParseFloat(submissions[i].limit)
      IN /\ min_trust_line_amount <= v /\ v <= max_trust_line_amount
         /\ (l < min_trust_line_amount => v = min_trust_line_amount)
         /\ (l > max_trust_line_amount => v = max_trust_line_amount)
         /\ (min_trust_line_amount <= l /\ l <= max_trust_line_amount => v = l)

\* limit 50 with min 1000 and max 10000 is submitted as 1000.0
C5_Witness ==
  /\ min_trust_line_amount = 1000
  /\ max_trust_line_amount = 10000
  /\ \E i \in 1..Len(submissions) :
       /\ submissions[i].type = "TrustSet"
       /\ submissions[i].limit = <<"5", "0">>
       /\ submissions[i].value = <<"1", "0", "0", "0", ".", "0">>

(***************************************************************************)
(* C6: in test mode the follower submits nothing, whatever frames arrive.  *)
(***************************************************************************)
C6_TestModeSubmitsNothing == test_mode => Len(submissions) = 0

\* test mode, main.py follower: a target TrustSet was handled and only logged
C6_Witness ==
  /\ test_mode
  /\ follower = "main"
  /\ testLogs = 2
  /\ known_tokens # {}
  /\ submissions = << >>

(***************************************************************************)
(* C7: hotness is latching: a token in hot_tokens stays in hot_tokens.     *)
(***************************************************************************)
C7_HotIsLatching == [][hot_tokens \subseteq hot_tokens']_vars

\* a hot token whose trust lines dropped below the threshold: 3 establishments, 1 removal
C7_Witness ==
  /\ min_trust_lines = 3
  /\ get_token_key("TST", Issuer) \in hot_tokens
  /\ tokens[get_token_key("TST", Issuer)].trust_lines = 2

TrustLinesOf(d, k) == IF k \in DOMAIN d THEN d[k].trust_lines ELSE 0

(***************************************************************************)
(* C8: the step that raises a token's trust_lines to min_trust_lines       *)
(* leaves the token in hot_tokens, for every threshold >= 1.               *)
(***************************************************************************)
C8_HotWhenThresholdReached ==
  [][\A k \in DOMAIN tokens' :
        (TrustLinesOf(tokens', k) = min_trust_lines /\ TrustLinesOf(tokens, k) < min_trust_lines)
           => k \in hot_tokens']_vars

\* the same statement for thresholds of at least 2
HotWhenThresholdReachedFromTwo ==
  [][\A k \in DOMAIN tokens' :
        (min_trust_lines >= 2 /\ TrustLinesOf(tokens', k) = min_trust_lines
           /\ TrustLinesOf(tokens, k) < min_trust_lines)
           => k \in hot_tokens']_vars

(***************************************************************************)
(* C9: handling a validated frame whose tx_hash was already handled        *)
(* changes neither the per-token counters nor the stored events.           *)
(***************************************************************************)
C9_ReplayIsIdempotent ==
  [][(nTrackerFrames' = nTrackerFrames + 1 /\ lastFrame'.validated /\ lastFrame'.hash \in seen)
        => (tokens' = tokens /\ traded_tokens' = traded_tokens
            /\ analytics_events' = analytics_events)]_vars

(***************************************************************************)
(* C10: too_old is terminal: no step takes a token whose stored status is  *)
(* too_old to active or pending.                                           *)
(***************************************************************************)
C10_TooOldIsTerminal ==
  [][\A t \in DOMAIN token_analysis :
        token_analysis[t].status = "too_old"
           => token_analysis'[t].status \notin {"active", "pending"}]_vars

(***************************************************************************)
(* C11: immediately after every PriceMonitor update of a token that        *)
(* completes, the token's stored max_price is at least its current_price.  *)
(***************************************************************************)
C11_MaxPriceAtLeastCurrent ==
  [][(nPriceSamples' = nPriceSamples + 1 /\ pm_last' # pm_last)
        => token_analysis'[pm_last'.token].max_price
             >= token_analysis'[pm_last'.token].current_price]_vars

(***************************************************************************)
(* C20: every transaction the follower submits answers a TrustSet frame    *)
(* whose Account is the target wallet and whose LimitAmount carries        *)
(* currency, issuer and value.                                             *)
(***************************************************************************)
C20_OnlyTargetAccountAndCompleteLimit ==
  \A i \in 1..Len(submissions) :
    /\ submissions[i].account = target_wallet
    /\ submissions[i].limit # MissingValue

\* the same statement for frames that carry no Destination key
OnlyTargetAccountWithoutDestination ==
  \A i \in 1..Len(submissions) :
    submissions[i].destination = NoDestination
      => /\ submissions[i].account = target_wallet
         /\ submissions[i].limit # MissingValue

(***************************************************************************)
(* C17: a monitor whose connection attempts keep failing waits and         *)
(* reconnects at most max_reconnect_attempts times before it gives up.     *)
(***************************************************************************)
C17_BoundedReconnects == waitNo <= max_reconnect_attempts

\* the same bound for the base and market monitors when every failure is a transport error
BoundedReconnectsOnTransportErrors ==
  (HasCounter /\ pc = "sleeping" /\ errsSinceSub = waitNo) => waitNo <= max_reconnect_attempts

(***************************************************************************)
(* C19: once stop() was called on a subscribed monitor, monitor()          *)
(* eventually returns, whether or not another frame arrives.               *)
(***************************************************************************)
C19_StopEndsMonitor == (pc = "subscribed" /\ ~is_running) ~> Terminal

C13_DuplicateWhileInFlightDropped == subIds \cap dupIds = {}

\* the same statement for the main.py follower, which remembers the tokens it has seen
DuplicateDroppedByKnownTokens == follower = "main" => subIds \cap dupIds = {}

(***************************************************************************)
(* C14: a submission that fails (a result other than tesSUCCESS, or the    *)
(* call raising) leaves the monitor subscribed and running, with the       *)
(* frames that wait in the queue untouched.                                *)
(***************************************************************************)
C14_FailedSubmissionContained ==
  [][(lastReturn' # lastReturn /\ lastReturn'.result # "tesSUCCESS")
        => (pc' = "subscribed" /\ is_running' /\ UNCHANGED monVars /\ inbox' = inbox)]_vars

\* after a failed submission the next frame was handled and its TrustSet submitted
C14_Witness ==
  /\ lastReturn # NoReturn
  /\ lastReturn.result # "tesSUCCESS"
  /\ \E h \in running : h.id > lastReturn.id
  /\ pc = "subscribed"

(***************************************************************************)
(* C15: when the ledger rejects the follower's TrustSet (or the submit     *)
(* call raises), the controller's last_error becomes that error.           *)
(***************************************************************************)
C15_RejectionSetsLastError ==
  [][(follower = "memecoin" /\ lastReturn' # lastReturn /\ lastReturn'.result # "tesSUCCESS")
        => last_error' = lastReturn'.result]_vars

(***************************************************************************)
(* C16: when the follower's TrustSet for a frame returns tesSUCCESS, the   *)
(* controller's trust_lines_today is exactly 1 above its value when the    *)
(* handling of that frame began.                                           *)
(***************************************************************************)
C16_SuccessCountsOnce ==
  [][(follower = "memecoin" /\ lastReturn' # lastReturn /\ lastReturn'.type = "TrustSet"
        /\ lastReturn'.result = "tesSUCCESS")
        => trust_lines_today' = tltAtStart + 1]_vars

\* a second mirrored frame succeeded: the counter stands at 2
C16_Witness ==
  /\ follower = "memecoin"
  /\ lastReturn # NoReturn
  /\ lastReturn.result = "tesSUCCESS"
  /\ lastReturn.id = 2
  /\ trust_lines_today = 2

(***************************************************************************)
(* C18: frames are handled in the order they were delivered, one at a      *)
(* time: a handler starts only when no handler is suspended, and the k-th  *)
(* handler to start is the one of the k-th frame delivered.                *)
(***************************************************************************)
C18_InOrderOneAtATime ==
  [][startedOrder' # startedOrder
        => (running = {} /\ startedOrder'[Len(startedOrder')] = Len(startedOrder'))]_vars

\* the second frame was taken after the first handler's submission had returned, while a
\* third waits in the queue
C18_Witness ==
  /\ startedOrder = <<1, 2>>
  /\ lastReturn # NoReturn
  /\ lastReturn.id = 1
  /\ \E h \in running : h.id = 2
  /\ Len(inbox) = 1

(***************************************************************************)
(* C21: main.py's follower, live mode.  The first accepted frame for a     *)
(* token submits a TrustSet; a Payment is submitted exactly when that      *)
(* TrustSet has returned tesSUCCESS, right after it and for the same       *)
(* token; a TrustSet that fails is followed by no Payment.                 *)
(***************************************************************************)
C21_TrustSetThenPayment ==
  [][(follower = "main" /\ ~test_mode) =>
       /\ (startedOrder' # startedOrder /\ Dispatched(inbox[1].f) /\ Accepted(inbox[1].f)
             /\ FrameToken(inbox[1].f) \notin known_tokens)
             => running' # running
       /\ (startedOrder' # startedOrder /\ running' # running)
             => /\ Len(submissions') = Len(submissions) + 1
                /\ submissions'[Len(submissions')].type = "TrustSet"
       /\ (lastReturn' # lastReturn /\ lastReturn'.type = "TrustSet")
             => IF lastReturn'.result = "tesSUCCESS"
                THEN /\ Len(submissions') = Len(submissions) + 1
                     /\ submissions'[Len(submissions')].type = "Payment"
                     /\ submissions[Len(submissions)].type = "TrustSet"
                     /\ submissions'[Len(submissions')].currency
                          = submissions[Len(submissions)].currency
                ELSE submissions' = submissions
       /\ (lastReturn' # lastReturn /\ lastReturn'.type = "Payment")
             => submissions' = submissions]_vars

\* a TrustSet and then a Payment for TST were submitted, and the Payment has returned
C21_Witness ==
  /\ follower = "main" /\ ~test_mode
  /\ Len(submissions) = 2
  /\ submissions[1].type = "TrustSet" /\ submissions[1].currency = "TST"
  /\ submissions[2].type = "Payment" /\ submissions[2].currency = "TST"
  /\ lastReturn # NoReturn
  /\ lastReturn.type = "Payment"

(***************************************************************************)
(* C23: the parser gives kind Other, not Payment, to a validated Payment   *)
(* frame whose Amount is a scalar (native coin) or whose token value is    *)
(* below min_trade_volume.                                                 *)
(***************************************************************************)
NativeOrSmallPayment(f) ==
  /\ f.validated = "true"
  /\ f.txKey = "transaction"
  /\ f.TransactionType = "Payment"
  /\ \/ f.Amount.kind = "scalar"
     \/ f.Amount.kind = "issued" /\ ParseFloat(f.Amount.value) < min_trade_volume

C23_NativeOrSmallPaymentIsOther ==
  (nParsed > 0 /\ NativeOrSmallPayment(parseInput)) => parsed.kind = "Other"

\* what the parser does return for these frames: the type Payment and no event
NativeOrSmallPaymentYieldsNoEvent ==
  (nParsed > 0 /\ NativeOrSmallPayment(parseInput))
     => parsed = [kind |-> "Payment", info |-> None]

(***************************************************************************)
(* C22: a frame whose validated flag is not true is classified as          *)
(* unvalidated by the parser, leaves the tracker's tokens, hot set and     *)
(* trade counters as they were, and leads to no follower submission.       *)
(***************************************************************************)
C22_UnvalidatedHasNoEffect ==
  [][/\ (nParsed' # nParsed /\ parseInput'.validated # "true")
          => parsed' = [kind |-> "unvalidated", info |-> None]
     /\ (nTrackerFrames' # nTrackerFrames /\ ~lastFrame'.validated)
          => UNCHANGED <<tokens, hot_tokens, traded_tokens, analytics_events>>
     /\ \A i \in 1..Len(submissions') : submissions'[i].validated]_vars

\* the parser and the tracker have each had an unvalidated frame, the follower has
\* had a frame too, and nothing was counted or submitted
C22_Witness ==
  /\ nParsed > 0 /\ parseInput.validated \in {"false", "absent"}
  /\ parsed.kind = "unvalidated"
  /\ nTrackerFrames > 0 /\ ~lastFrame.validated /\ tokens = << >>
  /\ nFollowerFrames > 0 /\ submissions = << >>

(***************************************************************************)
(* C24: trust_lines of every tracked token is at least 0 in every state;   *)
(* a removal for a known token sets it to max(0, trust_lines - 1), and a   *)
(* removal for an unknown token creates no token state.                    *)
(***************************************************************************)
RemovalOf(key) ==
  /\ nTrackerFrames' # nTrackerFrames
  /\ lastFrame'.validated
  /\ \E t \in LedgerTxs :
       /\ t.hash = lastFrame'.hash /\ t.TransactionType = "TrustSet"
       /\ t.value = <<"0">> /\ get_token_key(t.currency, t.issuer) = key

C24_TrustLinesNeverNegative ==
  [][/\ \A k \in DOMAIN tokens' : tokens'[k].trust_lines >= 0
     /\ \A k \in StoreTokens :
          RemovalOf(k) =>
            IF k \in DOMAIN tokens
            THEN tokens'[k].trust_lines = Max(0, tokens[k].trust_lines - 1)
            ELSE tokens' = tokens]_vars

\* a removal has just been handled for a token whose count is now zero
C24_Witness ==
  /\ lastFrame.hash = "h4" /\ lastFrame.validated
  /\ <<"TST", Issuer>> \in DOMAIN tokens
  /\ tokens[<<"TST", Issuer>>].trust_lines = 0

(***************************************************************************)
(* C25: a token the store reports as too_old when the tracker first sees a *)
(* TrustSet establishment for it gets a filtered state: its trust lines    *)
(* and trades are never counted and it never enters the hot set.           *)
(***************************************************************************)
C25_TooOldGate ==
  \A k \in StoreTokens :
    is_token_too_old(k) =>
      /\ k \notin hot_tokens
      /\ k \notin DOMAIN traded_tokens
      /\ k \in DOMAIN tokens => tokens[k].trust_lines <= 1

(***************************************************************************)
(* C26: with the analyzer cycling and its ledger requests answered, every  *)
(* token in status pending is eventually reclassified, to too_old or to    *)
(* active; no token stays pending for ever.                                *)
(***************************************************************************)
StatusOf(t) == DocOf(token_analysis, t).status

C27_SnapshotEqualsMemory ==
  [][snapshot' # snapshot =>
       /\ snapshot'.written
       /\ DOMAIN snapshot'.tokens = DOMAIN tokens'
       /\ \A k \in DOMAIN tokens' : snapshot'.tokens[k].trust_lines = tokens'[k].trust_lines
       /\ snapshot'.hot_tokens = hot_tokens'
       /\ snapshot'.traded_tokens = traded_tokens']_vars

\* a snapshot holding a hot token has just been written after a handler ran
C27_Witness ==
  /\ snapshot.written
  /\ lastFrame.validated
  /\ snapshot.hot_tokens # {}
  /\ snapshot.tokens = tokens
  /\ snapshot.hot_tokens = hot_tokens

C29_ScoreWithinBounds ==
  \A w \in DOMAIN wallet_scores : 0 <= wallet_scores[w] /\ wallet_scores[w] <= 1000

(***************************************************************************)
(* C30: after a scoring round the alpha file lists exactly the active      *)
(* wallets with at least min_trades trust lines and a score of 7 or more,  *)
(* one row per wallet, sorted by score in descending order.                *)
(***************************************************************************)
C30_AlphaFileContents ==
  [][nRounds' # nRounds =>
       /\ { alpha_file'[i].wallet : i \in 1..Len(alpha_file') }
            = { w \in GetActiveWallets(clock - ActiveWindow) :
                  /\ Len(GetWalletTrustlines(w)) >= min_trades
                  /\ CalculateWalletScore(w) >= AlphaThreshold }
       /\ \A i, j \in 1..Len(alpha_file') :
            /\ i # j => alpha_file'[i].wallet # alpha_file'[j].wallet
            /\ i < j => alpha_file'[i].score >= alpha_file'[j].score]_vars

\* what the rounds do guarantee: the rows are the active wallets scoring 7 or more, one
\* row each, in descending order of score
AlphaFileIgnoringMinTrades ==
  [][nRounds' # nRounds =>
       /\ { alpha_file'[i].wallet : i \in 1..Len(alpha_file') }
            = { w \in GetActiveWallets(clock - ActiveWindow) :
                  CalculateWalletScore(w) >= AlphaThreshold }
       /\ \A i, j \in 1..Len(alpha_file') :
            /\ i # j => alpha_file'[i].wallet # alpha_file'[j].wallet
            /\ i < j => alpha_file'[i].score >= alpha_file'[j].score]_vars

(***************************************************************************)
(* C31: a wallet's trust line for a token counts as an early adoption      *)
(* exactly when the wallet is among the first early_adopter_max wallets to *)
(* open a trust line for that token: the k-th wallet is early iff          *)
(* k <= early_adopter_max.                                                 *)
(***************************************************************************)
\* the wallets that opened a trust line for token t in the first i documents
OpenersUpTo(t, i) ==
  { db_trustlines[j].wallet : j \in { x \in 1..i :
       db_trustlines[x].token = t /\ db_trustlines[x].limit # <<"0">> } }

\* document i is the first trust line its wallet opens for its token
FirstOpening(i) ==
  /\ db_trustlines[i].limit # <<"0">>
  /\ db_trustlines[i].wallet \notin OpenersUpTo(db_trustlines[i].token, i - 1)

C31_EarlyIffAmongFirst ==
  \A i \in 1..Len(db_trustlines) :
    FirstOpening(i) =>
      (IsEarlyAdoption(db_trustlines[i])
         <=> Cardinality(OpenersUpTo(db_trustlines[i].token, i)) <= early_adopter_max)

\* what the position test does: the k-th document opened for a token is early iff
\* k + 1 <= early_adopter_max
EarlyIffPositionPlusOne ==
  \A i \in 1..Len(db_trustlines) :
    db_trustlines[i].limit # <<"0">> =>
      (IsEarlyAdoption(db_trustlines[i])
         <=> Cardinality({ x \in 1..i : db_trustlines[x].token = db_trustlines[i].token
                                        /\ db_trustlines[x].limit # <<"0">> }) + 1
               <= early_adopter_max)

(***************************************************************************)
(* C32: an error raised while handling one frame is contained at the       *)
(* handler: the connection stays open, the reconnect counter and the       *)
(* backoff delay are untouched, the pipeline does not stop, and the next   *)
(* delivered frame is handled.                                             *)
(***************************************************************************)
C32_HandlerErrorContained ==
  [][handlerRaised' =>
       /\ pc' = "subscribed"
       /\ reconnect_attempts' = reconnect_attempts
       /\ current_delay' = current_delay
       /\ waitNo' = waitNo]_vars

\* the base class's loop does contain it
HandlerErrorContainedInBase ==
  [][(handlerRaised' /\ variant = "base") =>
       /\ pc' = "subscribed"
       /\ reconnect_attempts' = reconnect_attempts
       /\ current_delay' = current_delay
       /\ waitNo' = waitNo]_vars

(***************************************************************************)
(* C33: after Config has loaded any combination of config files,           *)
(* max_trust_line_amount >= min_trust_line_amount and both are positive;   *)
(* when the supplied max is below the supplied min, both values are the    *)
(* defaults (1000 and 10000).                                              *)
(***************************************************************************)
SuppliedMaxBelowMin ==
  /\ Supplied.min_trust_line_amount.k = "number"
  /\ Supplied.max_trust_line_amount.k = "number"
  /\ Supplied.max_trust_line_amount.v < Supplied.min_trust_line_amount.v

C33_TrustLineLimitsValid ==
  config_loaded =>
    /\ trading.max_trust_line_amount >= trading.min_trust_line_amount
    /\ trading.min_trust_line_amount > 0
    /\ trading.max_trust_line_amount > 0
    /\ SuppliedMaxBelowMin => trading = DEFAULT_CONFIG

\* what the validation does establish: ordered, non-negative limits
TrustLineLimitsOrdered ==
  config_loaded =>
    /\ trading.max_trust_line_amount >= trading.min_trust_line_amount
    /\ trading.min_trust_line_amount >= 0

(***************************************************************************)
(* C34: each 429 response sets current_delay to                            *)
(* min(max_delay, current_delay * backoff_factor); the first success after *)
(* one or more 429s sets it to max(baseline, current_delay /               *)
(* backoff_factor); in every reachable state                               *)
(* baseline (1 s) <= current_delay <= max_delay (60 s).                    *)
(***************************************************************************)
C34_DelayUpdatesAndBounds ==
  [][/\ rl_response' = "429" =>
          rl_current_delay' = Min(max_delay, rl_current_delay * backoff_factor)
     /\ (rl_response' = "success" /\ consecutive_429s > 0) =>
          rl_current_delay' = Max(initial_delay, rl_current_delay \div backoff_factor)
     /\ initial_delay <= rl_current_delay' /\ rl_current_delay' <= max_delay]_vars

\* the ceiling has been hit and a success has then halved the delay
C34_Witness ==
  /\ rl_response = "success"
  /\ rl_current_delay = max_delay \div backoff_factor
  /\ consecutive_429s = 0

(***************************************************************************)
(* C35: any two ledger requests gated by the same RateLimiter are issued   *)
(* at least current_delay apart, also when wait_if_needed is called by the *)
(* concurrent tasks of one analysis batch.                                 *)
(***************************************************************************)
Issues(t) == task_pc[t] # "requesting" /\ task_pc'[t] = "requesting"

C35_RequestsSpacedByDelay ==
  [][\A t \in BatchTasks : Issues(t) => since_last_request >= rl_current_delay]_vars

\* a task that did not have to sleep does keep the distance
UnsleptRequestsSpacedByDelay ==
  [][\A t \in BatchTasks :
       (Issues(t) /\ task_pc[t] = "ready") => since_last_request >= rl_current_delay]_vars

(***************************************************************************)
(* C36: after throttling stops the RateLimiter recovers: if from some      *)
(* point on every response is a success, current_delay reaches the         *)
(* baseline (1 s) after finitely many successes, from any delay reached by *)
(* earlier 429s.                                                           *)
(***************************************************************************)
C36_DelayRecovers == (~throttling) ~> (rl_current_delay = initial_delay)

\* one success after the 429s halves the delay once, and no later success does
OnlyFirstSuccessHalves ==
  [][(rl_response' = "success" /\ consecutive_429s = 0) =>
       rl_current_delay' = rl_current_delay]_vars

(***************************************************************************)
(* C37: monitor() returns or raises only when stop() was called, the task  *)
(* was cancelled, or the reconnect attempts are exhausted; a heartbeat     *)
(* task that ended with an error never makes monitor() terminate.          *)
(***************************************************************************)
C37_MonitorEndsOnlyWhenAsked ==
  pc \in {"returned", "raised"} => exitCause \in {"stopped", "cancelled", "exhausted"}

\* while the heartbeat task is alive or cancelled in time, monitor() does end only so
MonitorReturnsOnlyWhenAsked ==
  pc = "returned" => exitCause \in {"stopped", "cancelled", "exhausted"}

(***************************************************************************)
(* C38: every response-type frame received while SUBSCRIBED refreshes      *)
(* last_pong, whether the transport delivers it as JSON text or as an      *)
(* already-decoded object; hence as long as pongs keep arriving within     *)
(* ping_interval + ping_timeout, the heartbeat's dead-connection test      *)
(* stays false.                                                            *)
(***************************************************************************)
C38_ResponseRefreshesPong ==
  pc = "subscribed" =>
    /\ pongAge <= respAge
    /\ respAge <= ping_interval + ping_timeout => ~MissedPong

\* last_pong is refreshed by nothing but a response frame
PongRefreshedOnlyByResponse ==
  [][(pc = "subscribed" /\ pc' = "subscribed" /\ pongAge > 0 /\ pongAge' = 0)
       => respAge' = 0]_vars

(***************************************************************************)
(* C39: trust_lines_today never exceeds the number of follower submissions *)
(* that returned tesSUCCESS: it is not incremented for a target TrustSet   *)
(* frame whose mirroring submission fails or is never made.                *)
(***************************************************************************)
C39_CountedOnlyWhenMirrored == trust_lines_today <= Cardinality(okIds)

\* the counter follows the frames handled, one per accepted frame at most
CountedOncePerHandledFrame == trust_lines_today <= Len(startedOrder)

(***************************************************************************)
(* C40: at any time at most one monitor task started by the controller is  *)
(* alive, i.e. connected or waiting to reconnect: start_monitor does       *)
(* nothing while status is running, and for every interleaving of start    *)
(* and stop commands a new monitor task is never started while a previous  *)
(* monitor task has not yet returned.                                      *)
(***************************************************************************)
C40_AtMostOneMonitorTask == Cardinality(AliveTasks) <= 1

\* start_monitor does nothing while the status is running
StartOnlyWhenNotRunning ==
  [][monitor_obj' # monitor_obj => monitor_status # "running"]_vars

====
